---- MODULE Spec2Model ----
(***************************************************************************)
(* A model of the test-mode backend of betterstatuspage.                   *)
(*                                                                         *)
(*   - the synthetic state store: one JSON document (components,           *)
(*     incidents, templates) read and replaced as a whole by the           *)
(*     /api/test-mode route (GET / POST / PATCH / DELETE);                 *)
(*   - the status projection run by GET ?resource=components;              *)
(*   - the demo tracker document and the cleanup sweep;                    *)
(*   - the in-memory rate limiter of the live incident route.              *)
(*                                                                         *)
(* In Spec, SpecHistory, SpecNotFound and SpecSweep requests are served one *)
(* after the other: one action is one whole handler, from its first read   *)
(* of the document to its last write.  A handler's writes are kept as the  *)
(* sequence of documents it hands to saveTestData; the file holds the last *)
(* of them.  The specifications on overlapping calls split a call at its   *)
(* awaits: a file read, a file write and a call of the live system are     *)
(* steps of their own, and the calls in flight take them in any order.     *)
(*                                                                         *)
(* Timestamps (created_at, updated_at, display_at) are not part of the     *)
(* state: every handler writes `new Date()` into them and no handler reads *)
(* them.  An entry's created_at is written together with its generated id  *)
(* and by no other statement, so the id stands for both.  An incident's    *)
(* name and impact, which the handlers copy and never read, are left out.  *)
(* The file system is taken to be reliable (readFile returns what          *)
(* writeFile wrote), and every request passes validateAuth.                *)
(***************************************************************************)
EXTENDS Integers, Sequences, FiniteSets, TLC

VARIABLES
    file,          \* the persisted TestData document (.test-data/test-data.json)
    apiConfigured, \* STATUSPAGE_API_KEY && STATUSPAGE_PAGE_ID (process environment)
    lastOp,        \* the last request served by the test-mode route, and its answer
    tracker,       \* the persisted DemoTracker document (.demo-data/demo-tracker.json)
    demoMode,      \* NEXT_PUBLIC_PREVIEW_DEMO_MODE === 'true' (process environment)
    cronSecret,    \* CRON_SECRET is set (process environment)
    lastSweep,     \* the last tracker operation; for a sweep: what it read, what
                   \* the live system answered, what it reported
    inflight,      \* the calls that are between two of their awaits: what each
                   \* has read so far and where it stands
    rateLimitStore, \* the rate limiter's Map from client identifier to entry
    now,           \* Date.now()
    lastCheck      \* the last step of the rate limiter, and what it answered

vars ==
    <<file, apiConfigured, lastOp, tracker, demoMode, cronSecret, lastSweep, inflight,
      rateLimitStore, now, lastCheck>>

----------------------------------------------------------------------------
(* Bounds of the model.                                                    *)

MaxIncidents == 2   \* incidents the store may hold at once
MaxUpdates == 2     \* entries an incident's incident_updates may hold
MaxComponents == 2  \* components the store may hold at once
MaxTemplates == 2   \* templates the store may hold at once

----------------------------------------------------------------------------
(* JSON values.                                                            *)

\* A key that is missing from a JSON object (JavaScript's undefined).
Absent == "absent"

\* JavaScript truthiness of an optional string or object field.
Truthy(v) == v # Absent

\* a || b
Or(a, b) == IF Truthy(a) THEN a ELSE b

ComponentStatus ==
    {"operational", "degraded_performance", "partial_outage", "major_outage",
     "under_maintenance"}

IncidentStatus == {"investigating", "identified", "monitoring", "resolved", "postmortem"}

\* The zero-value document getTestData returns when the file is absent.
EmptyTestData == [components |-> <<>>, incidents |-> <<>>, templates |-> <<>>]

SeqToSet(s) == {s[i] : i \in DOMAIN s}

\* Array.prototype.findIndex on ids, 1-based; 0 stands for -1.
FindIndex(items, id) ==
    IF \E i \in DOMAIN items : items[i].id = id
    THEN CHOOSE i \in DOMAIN items :
             /\ items[i].id = id
             /\ \A j \in DOMAIN items : items[j].id = id => i <= j
    ELSE 0

\* Array.prototype.filter(item => item.id !== id)
FilterOutId(items, id) == SelectSeq(items, LAMBDA item : item.id # id)

----------------------------------------------------------------------------
(* generateTestId: `test_${Date.now()}_${random}`.  The generator hands    *)
(* out an id that no item of the document carries; the model takes the     *)
(* first such id of a fixed pool.                                          *)

IdPool == <<"t1", "t2", "t3", "t4", "t5", "t6", "t7", "t8", "t9">>

UsedIds(doc) ==
    {doc.components[i].id : i \in DOMAIN doc.components}
    \cup {doc.incidents[i].id : i \in DOMAIN doc.incidents}
    \cup UNION {{doc.incidents[i].incident_updates[j].id :
                    j \in DOMAIN doc.incidents[i].incident_updates} :
                i \in DOMAIN doc.incidents}
    \cup {doc.templates[i].id : i \in DOMAIN doc.templates}

HasFreshIds(used, n) == Cardinality(SeqToSet(IdPool) \ used) >= n

generateTestId(used) ==
    IdPool[CHOOSE i \in DOMAIN IdPool :
               /\ IdPool[i] \notin used
               /\ \A j \in DOMAIN IdPool : IdPool[j] \notin used => i <= j]

----------------------------------------------------------------------------
(* The status projection of GET ?resource=components.                      *)

\* A variant that takes only resolved incidents for closed.
IsOpen_ResolvedOnly(inc) == inc.status # "resolved"

IsOpen(inc) == inc.status # "resolved" /\ inc.status # "postmortem"

\* testData.incidents.filter(inc => inc.status !== 'resolved' && ... 'postmortem')
OpenIncidents(incs) == SelectSeq(incs, IsOpen)

\* incidentComponent.status && incidentComponent.status !== 'operational'
ClaimsStatus(snap) == Truthy(snap.status) /\ snap.status # "operational"

\* The snapshots of the open incidents in the order the nested forEach visits them.
RECURSIVE SnapshotsInOrder(_)
SnapshotsInOrder(open) ==
    IF open = <<>> THEN <<>>
    ELSE Head(open).components \o SnapshotsInOrder(Tail(open))

\* The Set filled by the first forEach over the open incidents.
ComponentIdsAffectedByOpenIncidents(open) ==
    {snap.id : snap \in {s \in SeqToSet(SnapshotsInOrder(open)) : ClaimsStatus(s)}}

\* The reset pass: components outside the affected set go back to operational.
NeedsReset(component, affected) ==
    component.id \notin affected /\ component.status # "operational"

\* A variant that resets nothing.
ResetPass_Skipped(comps, affected) == comps

\* A reset pass that drops the components it should set back.
ResetPass_Removes(comps, affected) ==
    LET Kept(component) == ~NeedsReset(component, affected)
    IN  SelectSeq(comps, Kept)

ResetPass(comps, affected) ==
    [i \in DOMAIN comps |->
        IF NeedsReset(comps[i], affected)
        THEN [comps[i] EXCEPT !.status = "operational"]
        ELSE comps[i]]

\* A reset pass that never asks for the save.
ComponentsReset_Never(comps, affected) == FALSE

ComponentsReset(comps, affected) ==
    \E i \in DOMAIN comps : NeedsReset(comps[i], affected)

\* A variant in which the first claim met wins: a component that already left
\* operational is not written again.
ApplySnapshot_FirstWins(st, snap) ==
    LET componentIndex == FindIndex(st.components, snap.id) IN
    IF /\ ClaimsStatus(snap)
       /\ componentIndex # 0
       /\ st.components[componentIndex].status = "operational"
    THEN [components |-> [st.components EXCEPT ![componentIndex].status = snap.status],
          updated |-> TRUE]
    ELSE st

\* An apply pass that stores a component for a snapshot the store has none for.
ApplySnapshot_Materializes(st, snap) ==
    LET componentIndex == FindIndex(st.components, snap.id) IN
    IF ClaimsStatus(snap) /\ componentIndex = 0
    THEN [components |-> Append(st.components, snap), updated |-> TRUE]
    ELSE IF /\ ClaimsStatus(snap)
            /\ st.components[componentIndex].status # snap.status
         THEN [components |->
                   [st.components EXCEPT ![componentIndex].status = snap.status],
               updated |-> TRUE]
         ELSE st

\* One step of the apply pass: st = [components, updated].
ApplySnapshot(st, snap) ==
    LET componentIndex == FindIndex(st.components, snap.id) IN
    IF /\ ClaimsStatus(snap)
       /\ componentIndex # 0
       /\ st.components[componentIndex].status # snap.status
    THEN [components |-> [st.components EXCEPT ![componentIndex].status = snap.status],
          updated |-> TRUE]
    ELSE st

RECURSIVE ApplyPass(_, _)
ApplyPass(st, snaps) ==
    IF snaps = <<>> THEN st
    ELSE ApplyPass(ApplySnapshot(st, Head(snaps)), Tail(snaps))

\* Both passes on a document held in memory: the reconciled component list and
\* the two flags that decide whether the handler saves.
Projection(testData) ==
    LET open == OpenIncidents(testData.incidents)
        affected == ComponentIdsAffectedByOpenIncidents(open)
        afterReset == ResetPass(testData.components, affected)
        applied == ApplyPass([components |-> afterReset, updated |-> FALSE],
                             SnapshotsInOrder(open))
    IN  [components |-> applied.components,
         componentsReset |-> ComponentsReset(testData.components, affected),
         componentsUpdated |-> applied.updated]

----------------------------------------------------------------------------
(* Request payloads.  A key the caller left out is Absent; the components  *)
(* payload is a map {componentId: status} (entries in Object.entries       *)
(* order), an array of snapshots, or absent.                               *)

NoComponents == [form |-> "absent", entries |-> <<>>]
MapOf(entries) == [form |-> "map", entries |-> entries]
ArrayOf(entries) == [form |-> "array", entries |-> entries]

NoIncidentUpdate == [present |-> FALSE, status |-> Absent, body |-> Absent]
NoUpdatesList == [present |-> FALSE, items |-> <<>>]
NoIds == [present |-> FALSE, items |-> <<>>]

NoBody ==
    [id |-> Absent, name |-> Absent, status |-> Absent, body |-> Absent,
     components |-> NoComponents, component_ids |-> NoIds,
     incident_update |-> NoIncidentUpdate, incident_updates |-> NoUpdatesList,
     componentId |-> Absent]

\* body.components && typeof body.components === 'object' && !Array.isArray(...)
IsMapForm(payload) == payload.form = "map"

\* Array.isArray(body.components)
IsArrayForm(payload) == payload.form = "array"

\* `Component ${componentId}`
StubName(componentId) ==
    CASE componentId = "c1" -> "Component c1"
      [] componentId = "c2" -> "Component c2"
      [] componentId = "c3" -> "Component c3"
      [] OTHER -> "Component"

\* One entry of the map turned into a snapshot: the stored component with the
\* claimed status, or a stub when the store has no such component.
SnapshotOf(snapshotComponents, entry) ==
    LET index == FindIndex(snapshotComponents, entry.id) IN
    IF index # 0
    THEN [snapshotComponents[index] EXCEPT !.status = entry.status]
    ELSE [id |-> entry.id, name |-> StubName(entry.id), status |-> entry.status]

\* Object.entries(body.components).map(...)
NormalizeMap(snapshotComponents, entries) ==
    [k \in DOMAIN entries |-> SnapshotOf(snapshotComponents, entries[k])]

\* Object.entries(body.components).forEach(...): the claimed statuses written
\* into the components of testDataSnapshot.
RECURSIVE UpdateComponentStatuses(_, _)
UpdateComponentStatuses(snapshotComponents, entries) ==
    IF entries = <<>> THEN snapshotComponents
    ELSE LET componentIndex == FindIndex(snapshotComponents, Head(entries).id)
             next == IF componentIndex # 0
                     THEN [snapshotComponents EXCEPT
                               ![componentIndex].status = Head(entries).status]
                     ELSE snapshotComponents
         IN  UpdateComponentStatuses(next, Tail(entries))

\* What a handler answers: the documents it handed to saveTestData, in order,
\* the HTTP status and the JSON it returned.
Answer(writes, code, data) == [writes |-> writes, code |-> code, data |-> data]

NoData == <<>>

\* The file after a handler's writes.
FileAfter(doc, writes) == IF writes = <<>> THEN doc ELSE writes[Len(writes)]

----------------------------------------------------------------------------
(* The handlers of the test-mode route, as functions of the document(s)    *)
(* they read and of the request.                                           *)

\* testData[resource as keyof TestData] || []
ItemsOf(testData, resource) ==
    CASE resource = "components" -> testData.components
      [] resource = "incidents" -> testData.incidents
      [] resource = "templates" -> testData.templates
      [] OTHER -> <<>>

\* GET.  testData is the handler's first read; currentTestData the read the
\* initialize branch makes before it saves; fetched the live system's answer
\* to GET /components ([ok, components]).
GetHandler(testData, currentTestData, configured, resource, id, initialize, fetched) ==
    IF initialize /\ resource = "components" /\ configured /\ fetched.ok
    THEN \* seeded from the live system, saved and returned as fetched
         LET seeded == [currentTestData EXCEPT !.components = fetched.components]
         IN  Answer(<<seeded>>, 200, seeded.components)
    ELSE IF Truthy(id)
    THEN \* single resource
         LET items == ItemsOf(testData, resource)
             index == FindIndex(items, id)
         IN  IF index = 0 THEN Answer(<<>>, 404, NoData)
             ELSE Answer(<<>>, 200, <<items[index]>>)
    ELSE IF resource = "components"
    THEN LET autoInit == /\ Len(testData.components) = 0
                         /\ ~initialize
                         /\ configured
                         /\ fetched.ok
             loaded == IF autoInit
                       THEN [testData EXCEPT !.components = fetched.components]
                       ELSE testData
             proj == Projection(loaded)
             synced == [loaded EXCEPT !.components = proj.components]
         IN  Answer((IF autoInit THEN <<loaded>> ELSE <<>>)
                        \o (IF proj.componentsUpdated \/ proj.componentsReset
                            THEN <<synced>> ELSE <<>>),
                    200, synced.components)
    ELSE IF resource = "incidents" THEN Answer(<<>>, 200, testData.incidents)
    ELSE IF resource = "templates" THEN Answer(<<>>, 200, testData.templates)
    ELSE Answer(<<>>, 400, NoData)

\* POST ?resource=components
PostComponent(testData, body) ==
    LET newComponent ==
            [id |-> Or(body.id, generateTestId(UsedIds(testData))),
             name |-> Or(body.name, "Test Component"),
             status |-> Or(body.status, "operational")]
    IN  Answer(<<[testData EXCEPT !.components = Append(@, newComponent)]>>,
               200, <<newComponent>>)

\* POST ?resource=templates: { id: generateTestId(), name, body, ...body }
PostTemplate(testData, body) ==
    LET newTemplate ==
            [id |-> Or(body.id, generateTestId(UsedIds(testData))),
             name |-> body.name,
             body |-> body.body]
    IN  Answer(<<[testData EXCEPT !.templates = Append(@, newTemplate)]>>,
               200, <<newTemplate>>)

\* A create that puts the new incident at the end of the list.
PostIncident_Push(testData, testDataSnapshot, body) ==
    LET isMap == IsMapForm(body.components)
        componentsArray ==
            IF isMap
            THEN NormalizeMap(testDataSnapshot.components, body.components.entries)
            ELSE IF IsArrayForm(body.components) THEN body.components.entries
            ELSE <<>>
        mutated ==
            [testDataSnapshot EXCEPT
                !.components = UpdateComponentStatuses(@, body.components.entries)]
        incidentId == generateTestId(UsedIds(testData))
        updateId == generateTestId(UsedIds(testData) \cup {incidentId})
        newIncident ==
            [id |-> incidentId,
             status |-> body.status,
             body |-> body.body,
             components |-> componentsArray,
             component_ids |-> IF body.component_ids.present
                               THEN body.component_ids.items ELSE <<>>,
             incident_updates |->
                 <<[id |-> updateId, status |-> body.status, body |-> body.body]>>]
        saved == [testData EXCEPT !.incidents = @ \o <<newIncident>>]
    IN  Answer((IF isMap THEN <<mutated>> ELSE <<>>) \o <<saved>>,
               200, <<newIncident>>)

\* POST ?resource=incidents.  testDataSnapshot is the second read the map
\* branch makes; it is saved with the claimed statuses, then testData is
\* saved with the new incident in front.
PostIncident(testData, testDataSnapshot, body) ==
    LET isMap == IsMapForm(body.components)
        componentsArray ==
            IF isMap
            THEN NormalizeMap(testDataSnapshot.components, body.components.entries)
            ELSE IF IsArrayForm(body.components) THEN body.components.entries
            ELSE <<>>
        mutated ==
            [testDataSnapshot EXCEPT
                !.components = UpdateComponentStatuses(@, body.components.entries)]
        incidentId == generateTestId(UsedIds(testData))
        updateId == generateTestId(UsedIds(testData) \cup {incidentId})
        newIncident ==
            [id |-> incidentId,
             status |-> body.status,
             body |-> body.body,
             components |-> componentsArray,
             component_ids |-> IF body.component_ids.present
                               THEN body.component_ids.items ELSE <<>>,
             incident_updates |->
                 <<[id |-> updateId, status |-> body.status, body |-> body.body]>>]
        saved == [testData EXCEPT !.incidents = <<newIncident>> \o @]
    IN  Answer((IF isMap THEN <<mutated>> ELSE <<>>) \o <<saved>>,
               200, <<newIncident>>)

\* PATCH ?resource=components with body.componentId
PatchComponentStatus(testData, body) ==
    LET componentIndex == FindIndex(testData.components, body.componentId) IN
    IF componentIndex = 0 THEN Answer(<<>>, 404, NoData)
    ELSE LET saved == [testData EXCEPT
                          !.components[componentIndex].status = body.status]
         IN  Answer(<<saved>>, 200, <<saved.components[componentIndex]>>)

\* PATCH ?resource=incidents, body.incident_update given: push one update and
\* set the top-level status from body.status.
AddIncidentUpdate(testData, index, body) ==
    LET incident == testData.incidents[index]
        pushed == [id |-> generateTestId(UsedIds(testData)),
                   status |-> Or(body.incident_update.status, incident.status),
                   body |-> Or(body.incident_update.body, body.body)]
        updated == [incident EXCEPT
                       !.incident_updates = Append(@, pushed),
                       !.status = Or(body.status, incident.status)]
        saved == [testData EXCEPT !.incidents[index] = updated]
    IN  Answer(<<saved>>, 200, <<updated>>)

\* A merge that keeps the status of a closed incident.
MergeIncident_NoReopen(incident, body) ==
    [incident EXCEPT
        !.status = IF incident.status \in {"resolved", "postmortem"}
                   THEN @ ELSE Or(body.status, @),
        !.body = Or(body.body, @),
        !.component_ids = IF body.component_ids.present
                          THEN body.component_ids.items ELSE @,
        !.incident_updates = IF body.incident_updates.present
                             THEN body.incident_updates.items ELSE @]

\* { ...items[index], ...body }: the keys the payload carries replace the item's.
MergeIncident(incident, body) ==
    [incident EXCEPT
        !.id = Or(body.id, @),
        !.status = Or(body.status, @),
        !.body = Or(body.body, @),
        !.component_ids = IF body.component_ids.present
                          THEN body.component_ids.items ELSE @,
        !.incident_updates = IF body.incident_updates.present
                             THEN body.incident_updates.items ELSE @]

\* A replace that takes the payload's components also when they are empty.
ReplaceIncident_NoGuard(testData, testDataSnapshot, index, body) ==
    LET incident == testData.incidents[index]
        isMap == IsMapForm(body.components)
        componentsArray ==
            IF isMap
            THEN NormalizeMap(testDataSnapshot.components, body.components.entries)
            ELSE IF IsArrayForm(body.components) THEN body.components.entries
            ELSE incident.components
        mutated ==
            [testDataSnapshot EXCEPT
                !.components = UpdateComponentStatuses(@, body.components.entries)]
        merged == [MergeIncident(incident, body) EXCEPT !.components = componentsArray]
        saved == [testData EXCEPT !.incidents[index] = merged]
    IN  Answer((IF isMap THEN <<mutated>> ELSE <<>>) \o <<saved>>, 200, <<merged>>)

\* A replace that, when it resolves the incident, sets the components the
\* incident claimed back to operational.
ReplaceIncident_SelfCleaning(testData, testDataSnapshot, index, body) ==
    LET incident == testData.incidents[index]
        claimed == {incident.components[k].id : k \in DOMAIN incident.components}
        merged == MergeIncident(incident, body)
        cleaned == [k \in DOMAIN testData.components |->
                       IF body.status = "resolved" /\ testData.components[k].id \in claimed
                       THEN [testData.components[k] EXCEPT !.status = "operational"]
                       ELSE testData.components[k]]
        saved == [testData EXCEPT !.incidents[index] = merged, !.components = cleaned]
    IN  Answer(<<saved>>, 200, <<merged>>)

\* A replace that stores the payload's components as the caller sent them:
\* the entries of a map stay {id, status} pairs without a name.
ReplaceIncident_AsSent(testData, testDataSnapshot, index, body) ==
    LET incident == testData.incidents[index]
        merged == [MergeIncident(incident, body) EXCEPT
                      !.components = IF body.components.form = "absent"
                                     THEN incident.components
                                     ELSE body.components.entries]
        saved == [testData EXCEPT !.incidents[index] = merged]
    IN  Answer(<<saved>>, 200, <<merged>>)

\* PATCH ?resource=incidents without body.incident_update
ReplaceIncident(testData, testDataSnapshot, index, body) ==
    LET incident == testData.incidents[index]
        isMap == IsMapForm(body.components)
        componentsArray ==
            IF isMap
            THEN NormalizeMap(testDataSnapshot.components, body.components.entries)
            ELSE IF IsArrayForm(body.components) THEN body.components.entries
            ELSE incident.components
        mutated ==
            [testDataSnapshot EXCEPT
                !.components = UpdateComponentStatuses(@, body.components.entries)]
        merged == [MergeIncident(incident, body) EXCEPT
                      !.components = IF Len(componentsArray) > 0
                                     THEN componentsArray ELSE incident.components]
        saved == [testData EXCEPT !.incidents[index] = merged]
    IN  Answer((IF isMap THEN <<mutated>> ELSE <<>>) \o <<saved>>, 200, <<merged>>)

\* PATCH of a component by ?id=: { ...items[index], ...body }
MergeComponent(testData, index, body) ==
    LET merged == [testData.components[index] EXCEPT
                      !.id = Or(body.id, @),
                      !.name = Or(body.name, @),
                      !.status = Or(body.status, @)]
        saved == [testData EXCEPT !.components[index] = merged]
    IN  Answer(<<saved>>, 200, <<merged>>)

\* PATCH of a template by ?id=: { ...items[index], ...body }
MergeTemplate(testData, index, body) ==
    LET merged == [testData.templates[index] EXCEPT
                      !.id = Or(body.id, @),
                      !.name = Or(body.name, @),
                      !.body = Or(body.body, @)]
        saved == [testData EXCEPT !.templates[index] = merged]
    IN  Answer(<<saved>>, 200, <<merged>>)

\* PATCH
PatchHandler(testData, testDataSnapshot, resource, id, body) ==
    IF resource = "components" /\ Truthy(body.componentId)
    THEN PatchComponentStatus(testData, body)
    ELSE IF ~Truthy(id) THEN Answer(<<>>, 400, NoData)
    ELSE LET index == FindIndex(ItemsOf(testData, resource), id) IN
         IF index = 0 THEN Answer(<<>>, 404, NoData)
         ELSE IF resource = "incidents"
         THEN IF body.incident_update.present
              THEN AddIncidentUpdate(testData, index, body)
              ELSE ReplaceIncident(testData, testDataSnapshot, index, body)
         ELSE IF resource = "components" THEN MergeComponent(testData, index, body)
         ELSE MergeTemplate(testData, index, body)

\* A variant that saves and answers success whatever the filter removed.
DeleteHandler_NoCheck(testData, resource, id) ==
    IF ~Truthy(id) THEN Answer(<<>>, 400, NoData)
    ELSE Answer(<<[testData EXCEPT !.incidents = FilterOutId(@, id)]>>, 200, NoData)

\* DELETE
DeleteHandler(testData, resource, id) ==
    IF ~Truthy(id) THEN Answer(<<>>, 400, NoData)
    ELSE LET items == ItemsOf(testData, resource)
             filtered == FilterOutId(items, id)
         IN  IF Len(filtered) = Len(items) THEN Answer(<<>>, 404, NoData)
             ELSE IF resource = "components"
             THEN Answer(<<[testData EXCEPT !.components = filtered]>>, 200, NoData)
             ELSE IF resource = "incidents"
             THEN Answer(<<[testData EXCEPT !.incidents = filtered]>>, 200, NoData)
             ELSE Answer(<<[testData EXCEPT !.templates = filtered]>>, 200, NoData)

----------------------------------------------------------------------------
(* The state machine of the store: one action per request.                 *)

NoRequest ==
    [method |-> "none", resource |-> "none", id |-> Absent, initialize |-> FALSE,
     body |-> NoBody, code |-> 0, writes |-> 0, data |-> NoData, again |-> FALSE,
     onEmpty |-> FALSE]

\* GET ?resource=components with neither id nor initialize: list(components).
IsListComponents(method, resource, id, initialize) ==
    method = "GET" /\ resource = "components" /\ id = Absent /\ ~initialize

\* A served request: the file holds the last document the handler saved.
\* lastOp keeps the request, the answer, the number of saveTestData calls,
\* whether the request is a list(components) that follows a list(components),
\* and whether the store held no component when the request arrived.
Serve(method, resource, id, initialize, body, answer) ==
    /\ file' = FileAfter(file, answer.writes)
    /\ lastOp' = [method |-> method, resource |-> resource, id |-> id,
                  initialize |-> initialize, body |-> body, code |-> answer.code,
                  writes |-> Len(answer.writes), data |-> answer.data,
                  again |-> /\ IsListComponents(method, resource, id, initialize)
                            /\ IsListComponents(lastOp.method, lastOp.resource,
                                                lastOp.id, lastOp.initialize),
                  onEmpty |-> file.components = <<>>]
    /\ UNCHANGED <<apiConfigured, tracker, demoMode, cronSecret, lastSweep, inflight,
                 rateLimitStore, now, lastCheck>>

Get(resource, id, initialize, fetched) ==
    Serve("GET", resource, id, initialize, NoBody,
          GetHandler(file, file, apiConfigured, resource, id, initialize, fetched))

PostComponents(body) ==
    /\ Len(file.components) < MaxComponents
    /\ HasFreshIds(UsedIds(file), 1)
    /\ Serve("POST", "components", Absent, FALSE, body, PostComponent(file, body))

PostTemplates(body) ==
    /\ Len(file.templates) < MaxTemplates
    /\ HasFreshIds(UsedIds(file), 1)
    /\ Serve("POST", "templates", Absent, FALSE, body, PostTemplate(file, body))

PostIncidents(body) ==
    /\ Len(file.incidents) < MaxIncidents
    /\ HasFreshIds(UsedIds(file), 2)
    /\ Serve("POST", "incidents", Absent, FALSE, body, PostIncident(file, file, body))

\* An add-update request is served while the incident's history has room.
HistoryHasRoom(resource, id, body) ==
    (resource = "incidents" /\ body.incident_update.present) =>
        \A i \in DOMAIN file.incidents :
            file.incidents[i].id = id =>
                /\ Len(file.incidents[i].incident_updates) < MaxUpdates
                /\ HasFreshIds(UsedIds(file), 1)

Patch(resource, id, body) ==
    /\ HistoryHasRoom(resource, id, body)
    /\ Serve("PATCH", resource, id, FALSE, body,
             PatchHandler(file, file, resource, id, body))

Delete(resource, id) ==
    Serve("DELETE", resource, id, FALSE, NoBody, DeleteHandler(file, resource, id))

----------------------------------------------------------------------------
(* The demo tracker and the cleanup sweep.                                 *)

\* The zero-value document getDemoTracker returns when the file is absent.
EmptyTracker == [incidents |-> <<>>, components |-> <<>>, templates |-> <<>>]

\* tracker.<kind>.filter(id => id !== removed)
WithoutId(ids, removed) == SelectSeq(ids, LAMBDA id : id # removed)

\* A variant that tracks whatever the demo flag says.
Tracked_Ungated(doc, demo, kind, id) ==
    IF id \in SeqToSet(doc[kind]) THEN doc
    ELSE [doc EXCEPT ![kind] = Append(@, id)]

\* trackIncident / trackComponent / trackTemplate: the document after the call.
Tracked(doc, demo, kind, id) ==
    IF ~demo THEN doc
    ELSE CASE kind = "incidents" ->
                IF id \in SeqToSet(doc.incidents) THEN doc
                ELSE [doc EXCEPT !.incidents = Append(@, id)]
           [] kind = "components" ->
                IF id \in SeqToSet(doc.components) THEN doc
                ELSE [doc EXCEPT !.components = Append(@, id)]
           [] kind = "templates" ->
                IF id \in SeqToSet(doc.templates) THEN doc
                ELSE [doc EXCEPT !.templates = Append(@, id)]

\* saveDemoTracker calls of a track call: one when the id is pushed.
TrackWrites(doc, demo, kind, id) ==
    IF demo /\ id \notin SeqToSet(doc[kind]) THEN 1 ELSE 0

\* removeTrackedIncident / removeTrackedTemplate: the document after the call.
\* A removal that leaves the tracker as it is.
removeTrackedIncident_Keeps(doc, incidentId) == doc

removeTrackedIncident(doc, incidentId) ==
    [doc EXCEPT !.incidents = WithoutId(@, incidentId)]

removeTrackedTemplate(doc, templateId) ==
    [doc EXCEPT !.templates = WithoutId(@, templateId)]

\* What a delete call on the live system comes to: an HTTP status, or a
\* rejected fetch.
Responded(status) == [threw |-> FALSE, status |-> status]
Threw == [threw |-> TRUE, status |-> 0]

Responses == {Responded(200), Responded(204), Responded(404), Responded(500), Threw}

\* response.ok
ResponseOk(response) == response.status >= 200 /\ response.status <= 299

\* A variant that takes only response.ok for a success.
DeleteSucceeded_OkOnly(response) == ~response.threw /\ ResponseOk(response)

\* response.ok || response.status === 404, reached when fetch did not throw
DeleteSucceeded(response) ==
    ~response.threw /\ (ResponseOk(response) \/ response.status = 404)

\* One iteration of a sweep loop over ids[k], st = [doc, deleted, errors, calls].
SweepItem(st, kind, id, response) ==
    LET called == [st EXCEPT !.calls = Append(@, <<kind, id>>)] IN
    IF DeleteSucceeded(response)
    THEN [called EXCEPT
             !.doc = IF kind = "incidents" THEN removeTrackedIncident(@, id)
                     ELSE removeTrackedTemplate(@, id),
             !.deleted = Append(@, <<kind, id>>)]
    ELSE [called EXCEPT !.errors = Append(@, <<kind, id>>)]

\* for (const id of ids) { ... }: ids is the list read when the sweep began,
\* responses[k] the live system's answer for ids[k].
RECURSIVE SweepLoop(_, _, _, _, _)
SweepLoop(st, kind, ids, responses, k) ==
    IF k > Len(ids) THEN st
    ELSE SweepLoop(SweepItem(st, kind, ids[k], responses[k]), kind, ids, responses, k + 1)

\* isDemoModeEnabled, validateCronRequest and the configuration check of the
\* sweep's GET: the status it answers before touching anything, or "run".
\* A gate that does not look at the cron secret.
SweepGate_NoSecret(demo, secretSet, headerMatches, configured) ==
    IF ~demo THEN "403"
    ELSE IF ~configured THEN "500"
    ELSE "run"

SweepGate(demo, secretSet, headerMatches, configured) ==
    IF ~demo THEN "403"
    ELSE IF ~(IF secretSet THEN headerMatches ELSE demo) THEN "401"
    ELSE IF ~configured THEN "500"
    ELSE "run"

\* A variant that goes on to delete the tracked components.
SweepHandler_WithComponents(doc, demo, secretSet, headerMatches, configured, incResponses, tplResponses) ==
    LET gate == SweepGate(demo, secretSet, headerMatches, configured)
        start == [doc |-> doc, deleted |-> <<>>, errors |-> <<>>, calls |-> <<>>]
        afterIncidents == SweepLoop(start, "incidents", doc.incidents, incResponses, 1)
        afterTemplates ==
            SweepLoop(afterIncidents, "templates", doc.templates, tplResponses, 1)
        afterComponents ==
            [afterTemplates EXCEPT
                !.calls = @ \o [k \in DOMAIN doc.components |->
                                   <<"components", doc.components[k]>>],
                !.doc.components = <<>>]
    IN  IF gate # "run" THEN [start EXCEPT !.doc = doc] @@ [code |-> gate]
        ELSE afterComponents @@ [code |-> "200"]

\* The cleanup sweep: the tracker document it leaves and what it reports.
SweepHandler(doc, demo, secretSet, headerMatches, configured, incResponses, tplResponses) ==
    LET gate == SweepGate(demo, secretSet, headerMatches, configured)
        start == [doc |-> doc, deleted |-> <<>>, errors |-> <<>>, calls |-> <<>>]
        afterIncidents == SweepLoop(start, "incidents", doc.incidents, incResponses, 1)
        afterTemplates ==
            SweepLoop(afterIncidents, "templates", doc.templates, tplResponses, 1)
    IN  IF gate # "run" THEN [start EXCEPT !.doc = doc] @@ [code |-> gate]
        ELSE afterTemplates @@ [code |-> "200"]

NoSweep ==
    [op |-> "none", code |-> "none", start |-> EmptyTracker, incResponses |-> <<>>,
     tplResponses |-> <<>>, deleted |-> <<>>, errors |-> <<>>, calls |-> <<>>,
     writes |-> 0, headerMatches |-> FALSE]

Track(kind, id) ==
    /\ tracker' = Tracked(tracker, demoMode, kind, id)
    /\ lastSweep' = [NoSweep EXCEPT !.op = "track", !.start = tracker,
                                    !.calls = <<<<kind, id>>>>,
                                    !.writes = TrackWrites(tracker, demoMode, kind, id)]
    /\ UNCHANGED <<file, apiConfigured, lastOp, demoMode, cronSecret, inflight,
                 rateLimitStore, now, lastCheck>>

Sweep(headerMatches, incResponses, tplResponses) ==
    LET ran == SweepHandler(tracker, demoMode, cronSecret, headerMatches,
                            apiConfigured, incResponses, tplResponses)
    IN  /\ tracker' = ran.doc
        /\ lastSweep' = [op |-> "sweep", code |-> ran.code, start |-> tracker,
                         incResponses |-> incResponses, tplResponses |-> tplResponses,
                         deleted |-> ran.deleted, errors |-> ran.errors,
                         calls |-> ran.calls, writes |-> Len(ran.deleted),
                         headerMatches |-> headerMatches]
        /\ UNCHANGED <<file, apiConfigured, lastOp, demoMode, cronSecret, inflight,
                 rateLimitStore, now, lastCheck>>

----------------------------------------------------------------------------
(* The inputs the specifications draw from.                                *)

\* The live system's components as GET /components returns them.
LiveStatuses == {"operational", "major_outage"}

LiveComponents(s1, s2) ==
    <<[id |-> "c1", name |-> "API", status |-> s1],
      [id |-> "c2", name |-> "Web", status |-> s2]>>

\* A failed fetch, a non-array answer, or the live component list.
Fetches ==
    {[ok |-> FALSE, components |-> <<>>], [ok |-> TRUE, components |-> <<>>]}
    \cup {[ok |-> TRUE, components |-> LiveComponents("operational", s2)] :
             s2 \in LiveStatuses}

Claim(id, status) == [id |-> id, name |-> Absent, status |-> status]
Snap(id, name, status) == [id |-> id, name |-> name, status |-> status]

\* components payloads: c1 and c2 are live components, c3 is in no store.
ComponentsPayloads ==
    {NoComponents, MapOf(<<>>), ArrayOf(<<>>),
     MapOf(<<Claim("c1", "partial_outage")>>),
     MapOf(<<Claim("c1", "major_outage")>>),
     MapOf(<<Claim("c1", "operational")>>),
     MapOf(<<Claim("c2", "major_outage")>>),
     MapOf(<<Claim("c3", "major_outage")>>),
     ArrayOf(<<Snap("c1", "API", "partial_outage"), Snap("c1", "API", "major_outage")>>)}

CreateBodies ==
    {[NoBody EXCEPT !.status = s, !.body = "b1", !.components = c] :
        s \in {"investigating"}, c \in ComponentsPayloads}

ReplaceBodies ==
    {[NoBody EXCEPT !.status = s] : s \in {"investigating", "resolved", "postmortem"}}
    \cup {[NoBody EXCEPT !.components = c] :
             c \in {NoComponents, MapOf(<<>>), ArrayOf(<<>>),
                    MapOf(<<Claim("c1", "major_outage")>>),
                    MapOf(<<Claim("c3", "major_outage")>>),
                    ArrayOf(<<Snap("c1", "API", "partial_outage"),
                              Snap("c1", "API", "major_outage")>>)}}

ComponentBodies ==
    {[NoBody EXCEPT !.componentId = c, !.status = s] :
        c \in {"c1", "c3"}, s \in {"operational", "major_outage"}}

\* The ids of the stored items of a resource, and an id that no item has.
StoredIds(resource) ==
    {ItemsOf(file, resource)[i].id : i \in DOMAIN ItemsOf(file, resource)}

UnknownId == "zz"

NoFetch == [ok |-> FALSE, components |-> <<>>]

----------------------------------------------------------------------------
(* Calls in flight.  A track call is idle, has read the tracker ("read":    *)
(* doc is the document it is about to save) or is done.  A sweep is idle,  *)
(* waits for the delete call of items[k] ("call"), is about to read the    *)
(* tracker to remove items[k] ("read"), is about to save doc ("write") or  *)
(* is done; answers[j] is what the live system answered for items[j].      *)

TrackCalls == {"k1", "k2"}
SweepCalls == {"s1", "s2"}

IdleTrack == [pc |-> "idle", kind |-> "none", id |-> Absent, doc |-> EmptyTracker]

IdleSweep ==
    [pc |-> "idle", code |-> "none", start |-> EmptyTracker, items |-> <<>>,
     k |-> 0, answers |-> <<>>, doc |-> EmptyTracker]

\* Two requests to the test-mode route in flight.  A request keeps the
\* document it read; turn tells in which place it saved, and overlapped that
\* the other request had read and not yet saved when this one saved.
StoreCalls == {"r1", "r2"}

IdleStore ==
    [pc |-> "idle", method |-> "none", resource |-> "none", id |-> Absent,
     body |-> NoBody, testData |-> EmptyTestData, code |-> 0, writes |-> 0,
     turn |-> 0, overlapped |-> FALSE]

NoCalls ==
    [track |-> [c \in TrackCalls |-> IdleTrack],
     sweep |-> [c \in SweepCalls |-> IdleSweep],
     store |-> [c \in StoreCalls |-> IdleStore],
     mixed |-> FALSE]

----------------------------------------------------------------------------
(* The rate limiter of the live incident route.  The store maps a client   *)
(* identifier to its entry {count, resetAt}; a client without an entry is  *)
(* mapped to NoEntry.  Time is Date.now() in milliseconds.                 *)

RATE_LIMIT_WINDOW_MS == 900000
MAX_REQUESTS_PER_WINDOW == 10

\* The client identifiers getClientIdentifier comes to.
Clients == {"10.0.0.1", "unknown"}

NoEntry == [present |-> FALSE, count |-> 0, resetAt |-> 0]
NoEntries == [c \in Clients |-> NoEntry]

\* A variant that lets a call through while count is at the maximum.
checkRateLimit_Inclusive(store, clientId, time) ==
    LET found == store[clientId]
        expired == found.present /\ found.resetAt < time
        entry == IF found.present /\ ~expired
                 THEN found
                 ELSE [present |-> TRUE, count |-> 0,
                       resetAt |-> time + RATE_LIMIT_WINDOW_MS]
        allowed == entry.count <= MAX_REQUESTS_PER_WINDOW
        counted == IF allowed THEN [entry EXCEPT !.count = @ + 1] ELSE entry
        left == MAX_REQUESTS_PER_WINDOW - counted.count
    IN  [store |-> [store EXCEPT ![clientId] = counted],
         allowed |-> allowed,
         remaining |-> IF left > 0 THEN left ELSE 0,
         resetAt |-> counted.resetAt,
         created |-> ~found.present \/ expired]

\* checkRateLimit: the store after the call and what the call returns;
\* created tells that the call made a new entry.
checkRateLimit(store, clientId, time) ==
    LET found == store[clientId]
        expired == found.present /\ found.resetAt < time
        entry == IF found.present /\ ~expired
                 THEN found
                 ELSE [present |-> TRUE, count |-> 0,
                       resetAt |-> time + RATE_LIMIT_WINDOW_MS]
        allowed == entry.count < MAX_REQUESTS_PER_WINDOW
        counted == IF allowed THEN [entry EXCEPT !.count = @ + 1] ELSE entry
        left == MAX_REQUESTS_PER_WINDOW - counted.count
    IN  [store |-> [store EXCEPT ![clientId] = counted],
         allowed |-> allowed,
         remaining |-> IF left > 0 THEN left ELSE 0,
         resetAt |-> counted.resetAt,
         created |-> ~found.present \/ expired]

\* cleanupRateLimitStore: the entries whose resetAt has passed are deleted.
cleanupRateLimitStore(store, time) ==
    [c \in Clients |->
        IF store[c].present /\ store[c].resetAt < time THEN NoEntry ELSE store[c]]

\* No step of the limiter yet.  granted counts, for each client, the calls
\* that were allowed since the client's entry was made.
NoCheck ==
    [op |-> "none", client |-> "none", allowed |-> FALSE, remaining |-> 0,
     resetAt |-> 0, created |-> FALSE, code |-> 0,
     granted |-> [c \in Clients |-> 0]]

LimiterStep(store, time, check) ==
    /\ rateLimitStore' = store
    /\ now' = time
    /\ lastCheck' = check
    /\ UNCHANGED <<file, apiConfigured, lastOp, tracker, demoMode, cronSecret,
                   lastSweep, inflight>>

\* PATCH of the live incident route up to the rate-limit gate: in demo mode
\* checkRateLimit is called and a denied request is answered 429.
LivePatch(client) ==
    IF demoMode
    THEN LET rateLimit == checkRateLimit(rateLimitStore, client, now)
         IN  LimiterStep(rateLimit.store, now,
                 [op |-> "check", client |-> client, allowed |-> rateLimit.allowed,
                  remaining |-> rateLimit.remaining, resetAt |-> rateLimit.resetAt,
                  created |-> rateLimit.created,
                  code |-> IF rateLimit.allowed THEN 200 ELSE 429,
                  granted |-> [lastCheck.granted EXCEPT
                                  ![client] = (IF rateLimit.created THEN 0 ELSE @)
                                              + (IF rateLimit.allowed THEN 1 ELSE 0)]])
    ELSE LimiterStep(rateLimitStore, now,
             [NoCheck EXCEPT !.op = "pass", !.client = client, !.code = 200,
                             !.granted = lastCheck.granted])

\* setInterval(cleanupRateLimitStore, ...)
Cleanup ==
    LimiterStep(cleanupRateLimitStore(rateLimitStore, now), now,
                [lastCheck EXCEPT !.op = "cleanup"])

\* The instants at which something happens: the start, the last instant of
\* a window that began at 0 and the first one after it, and so on.
Instants ==
    {0, 1, RATE_LIMIT_WINDOW_MS, RATE_LIMIT_WINDOW_MS + 1,
     2 * RATE_LIMIT_WINDOW_MS + 1, 2 * RATE_LIMIT_WINDOW_MS + 2}

\* Time passes.
Tick(time) ==
    /\ time > now
    /\ LimiterStep(rateLimitStore, time, [lastCheck EXCEPT !.op = "tick"])

InitLimiter ==
    /\ file = EmptyTestData
    /\ apiConfigured = TRUE
    /\ lastOp = NoRequest
    /\ tracker = EmptyTracker
    /\ demoMode \in BOOLEAN
    /\ cronSecret = FALSE
    /\ lastSweep = NoSweep
    /\ inflight = NoCalls
    /\ rateLimitStore = NoEntries
    /\ now = 0
    /\ lastCheck = NoCheck

NextLimiter ==
    \/ \E client \in Clients : LivePatch(client)
    \/ Cleanup
    \/ \E time \in Instants : Tick(time)

SpecLimiter == InitLimiter /\ [][NextLimiter]_vars
----------------------------------------------------------------------------
(* Spec: the store under requests served one at a time.                    *)

Init ==
    /\ file = EmptyTestData
    /\ apiConfigured \in BOOLEAN
    /\ lastOp = NoRequest
    /\ tracker = EmptyTracker
    /\ demoMode = FALSE
    /\ cronSecret = FALSE
    /\ lastSweep = NoSweep
    /\ inflight = NoCalls
    /\ rateLimitStore = NoEntries
    /\ now = 0
    /\ lastCheck = NoCheck

Next ==
    \/ \E initialize \in BOOLEAN, fetched \in Fetches :
           Get("components", Absent, initialize, fetched)
    \/ Get("incidents", Absent, FALSE, NoFetch)
    \/ \E id \in StoredIds("components") \cup {UnknownId} :
           Get("components", id, FALSE, NoFetch)
    \/ \E body \in CreateBodies : PostIncidents(body)
    \/ \E body \in ComponentBodies : Patch("components", Absent, body)
    \/ \E id \in StoredIds("incidents"), body \in ReplaceBodies :
           Patch("incidents", id, body)
    \/ Patch("incidents", UnknownId, [NoBody EXCEPT !.status = "resolved"])
    \/ \E id \in StoredIds("incidents") \cup {UnknownId} : Delete("incidents", id)

Spec == Init /\ [][Next]_vars

----------------------------------------------------------------------------
(* SpecHistory: the store under the requests that write incident_updates,  *)
(* followed on one incident at a time: an incident is created when the     *)
(* store holds none.                                                       *)

\* incident_update payloads: {status?, body?}
Update(status, body) == [present |-> TRUE, status |-> status, body |-> body]

\* Add-update payloads: incident_update alone, with and without its status and
\* body, and incident_update next to a top-level status or body.
AddUpdateBodies ==
    {[NoBody EXCEPT !.incident_update = Update(Absent, Absent)],
     [NoBody EXCEPT !.incident_update = Update("resolved", "u1")],
     [NoBody EXCEPT !.incident_update = Update("resolved", Absent)],
     [NoBody EXCEPT !.incident_update = Update(Absent, "u1"), !.status = "monitoring"],
     [NoBody EXCEPT !.incident_update = Update(Absent, Absent), !.body = "b2"]}

\* Replace-mode payloads: a status or an incident_updates list.
HistoryBodies ==
    {[NoBody EXCEPT !.status = "identified"]}
    \cup {[NoBody EXCEPT !.incident_updates = [present |-> TRUE, items |-> h]] :
             h \in {<<>>, <<[id |-> "x1", status |-> "resolved", body |-> "u9"]>>}}

HistoryCreateBodies ==
    {[NoBody EXCEPT !.status = "investigating", !.body = "b1"]}

NextHistory ==
    \/ \E body \in HistoryCreateBodies : file.incidents = <<>> /\ PostIncidents(body)
    \/ \E id \in StoredIds("incidents"), body \in AddUpdateBodies :
           Patch("incidents", id, body)
    \/ \E id \in StoredIds("incidents"), body \in HistoryBodies :
           Patch("incidents", id, body)
    \/ \E id \in StoredIds("incidents") : Delete("incidents", id)

SpecHistory == Init /\ [][NextHistory]_vars

----------------------------------------------------------------------------
(* SpecNotFound: the store under requests that name an id no item has,     *)
(* next to the requests that fill the store.                               *)

Resources == {"components", "incidents", "templates"}

\* Payloads sent with an unknown id: replace mode with a status, replace mode
\* with a components map, add-update mode.
NotFoundBodies ==
    {[NoBody EXCEPT !.status = "resolved"],
     [NoBody EXCEPT !.components = MapOf(<<Claim("c1", "major_outage")>>)],
     [NoBody EXCEPT !.incident_update = Update("resolved", "u1")]}

NotFoundCreateBodies ==
    {[NoBody EXCEPT !.status = "investigating", !.body = "b1", !.components = c] :
        c \in {NoComponents, MapOf(<<Claim("c1", "major_outage")>>)}}

NextNotFound ==
    \/ \E fetched \in Fetches : Get("components", Absent, FALSE, fetched)
    \/ \E body \in NotFoundCreateBodies : PostIncidents(body)
    \/ \E resource \in Resources : Get(resource, UnknownId, FALSE, NoFetch)
    \/ \E resource \in Resources, body \in NotFoundBodies :
           Patch(resource, UnknownId, body)
    \/ \E body \in ComponentBodies : Patch("components", Absent, body)
    \/ \E resource \in Resources : Delete(resource, UnknownId)
    \/ \E id \in StoredIds("incidents") : Delete("incidents", id)

SpecNotFound == Init /\ [][NextNotFound]_vars

----------------------------------------------------------------------------
(* SpecSweep: the demo tracker under track calls and cleanup sweeps, each   *)
(* run from its first read of the tracker document to its last write.      *)

MaxTracked == 2   \* ids the tracker may hold of one kind

TrackedIds(kind) ==
    CASE kind = "incidents" -> {"i1", "i2"}
      [] kind = "templates" -> {"p1"}
      [] kind = "components" -> {"c1"}

TrackerHasRoom(kind) == Len(tracker[kind]) < MaxTracked

InitSweep ==
    /\ file = EmptyTestData
    /\ apiConfigured \in BOOLEAN
    /\ lastOp = NoRequest
    /\ tracker = EmptyTracker
    /\ demoMode \in BOOLEAN
    /\ cronSecret \in BOOLEAN
    /\ lastSweep = NoSweep
    /\ inflight = NoCalls
    /\ rateLimitStore = NoEntries
    /\ now = 0
    /\ lastCheck = NoCheck

NextSweep ==
    \/ \E kind \in {"incidents", "templates", "components"} :
           \E id \in TrackedIds(kind) : TrackerHasRoom(kind) /\ Track(kind, id)
    \/ \E headerMatches \in BOOLEAN,
          incResponses \in [1..Len(tracker.incidents) -> Responses],
          tplResponses \in [1..Len(tracker.templates) -> Responses] :
           Sweep(headerMatches, incResponses, tplResponses)

SpecSweep == InitSweep /\ [][NextSweep]_vars

----------------------------------------------------------------------------
(* SpecConverge: the tracker holds ids, nothing is tracked any more, and   *)
(* sweeps run one after the other.  For each tracked incident and template *)
(* a sweep in which its delete call succeeds is taken in the end.          *)

SeededTrackers ==
    {[incidents |-> i, components |-> c, templates |-> t] :
        i \in {<<"i1", "i2">>, <<"i2", "i1">>, <<"i1">>},
        c \in {<<>>, <<"c1">>},
        t \in {<<>>, <<"p1">>}}

ConvergeItems == {<<"incidents", "i1">>, <<"incidents", "i2">>, <<"templates", "p1">>}

InitConverge ==
    /\ file = EmptyTestData
    /\ apiConfigured = TRUE
    /\ lastOp = NoRequest
    /\ tracker \in SeededTrackers
    /\ demoMode = TRUE
    /\ cronSecret = FALSE
    /\ lastSweep = NoSweep
    /\ inflight = NoCalls
    /\ rateLimitStore = NoEntries
    /\ now = 0
    /\ lastCheck = NoCheck

\* A sweep whose delete call for the item comes back with success or 404.
SweepDeleting(item) ==
    \E headerMatches \in BOOLEAN,
       incResponses \in [1..Len(tracker.incidents) -> Responses],
       tplResponses \in [1..Len(tracker.templates) -> Responses] :
        /\ \E k \in DOMAIN tracker[item[1]] :
               /\ tracker[item[1]][k] = item[2]
               /\ DeleteSucceeded(IF item[1] = "incidents"
                                  THEN incResponses[k] ELSE tplResponses[k])
        /\ Sweep(headerMatches, incResponses, tplResponses)

\* A sweep whatever the live system answers.
SweepAny ==
    \E headerMatches \in BOOLEAN,
       incResponses \in [1..Len(tracker.incidents) -> Responses],
       tplResponses \in [1..Len(tracker.templates) -> Responses] :
        Sweep(headerMatches, incResponses, tplResponses)

NextConverge ==
    \/ \E item \in ConvergeItems : SweepDeleting(item)
    \/ SweepAny

SpecConverge ==
    /\ InitConverge
    /\ [][NextConverge]_vars
    /\ \A item \in ConvergeItems : WF_vars(SweepDeleting(item))

----------------------------------------------------------------------------
(* SpecGate: sweep requests on a tracker file that holds ids, under every  *)
(* setting of the demo flag, the cron secret and the live configuration,   *)
(* with and without the matching authorization header.                     *)

InitGate ==
    /\ file = EmptyTestData
    /\ apiConfigured \in BOOLEAN
    /\ lastOp = NoRequest
    /\ tracker \in SeededTrackers
    /\ demoMode \in BOOLEAN
    /\ cronSecret \in BOOLEAN
    /\ lastSweep = NoSweep
    /\ inflight = NoCalls
    /\ rateLimitStore = NoEntries
    /\ now = 0
    /\ lastCheck = NoCheck

NextGate == SweepAny

SpecGate == InitGate /\ [][NextGate]_vars

----------------------------------------------------------------------------
(* SpecTracker: track calls and sweeps that overlap.  A track call reads   *)
(* the tracker file (getDemoTracker) and later saves it (saveDemoTracker); *)
(* a sweep reads the tracker, then for each item awaits the delete call    *)
(* and, on success, reads the tracker and saves it without the item.       *)

\* What each track call is called with.
TrackArgs(c) == IF c = "k1" THEN <<"incidents", "i1">> ELSE <<"incidents", "i2">>

\* What the live system answers to the delete calls of overlapping sweeps.
OverlapResponses == {Responded(200), Responded(404), Responded(500)}

TrackInFlight == \E c \in TrackCalls : inflight.track[c].pc = "read"

SweepStarted == \E c \in SweepCalls : inflight.sweep[c].pc # "idle"

\* A step of a call in flight: where the calls stand after it, and the
\* tracker file after it.  The field mixed of inflight tells that a track
\* call ran, in whole or in part, after a sweep had started.
TrackerStep(calls, doc) ==
    /\ inflight' = calls
    /\ tracker' = doc
    /\ UNCHANGED <<file, apiConfigured, lastOp, demoMode, cronSecret, lastSweep,
                 rateLimitStore, now, lastCheck>>

\* track...: isDemoMode, getDemoTracker, includes and push.
TrackRead(c) ==
    /\ inflight.track[c].pc = "idle"
    /\ LET kind == TrackArgs(c)[1]
           id == TrackArgs(c)[2]
           pushed == Tracked(tracker, demoMode, kind, id)
       IN  TrackerStep(
               [inflight EXCEPT
                   !.track[c] = [pc |-> IF pushed = tracker THEN "done" ELSE "read",
                                 kind |-> kind, id |-> id, doc |-> pushed],
                   !.mixed = @ \/ SweepStarted],
               tracker)

\* track...: saveDemoTracker.
TrackWrite(c) ==
    /\ inflight.track[c].pc = "read"
    /\ TrackerStep([inflight EXCEPT !.track[c].pc = "done"], inflight.track[c].doc)

\* The items a sweep visits: the tracked incidents, then the tracked templates.
SweepItems(doc) ==
    [k \in DOMAIN doc.incidents |-> <<"incidents", doc.incidents[k]>>]
    \o [k \in DOMAIN doc.templates |-> <<"templates", doc.templates[k]>>]

\* The sweep's gate and getTrackedItems.
SweepStart(c, headerMatches) ==
    /\ inflight.sweep[c].pc = "idle"
    /\ LET gate == SweepGate(demoMode, cronSecret, headerMatches, apiConfigured)
           items == IF gate = "run" THEN SweepItems(tracker) ELSE <<>>
       IN  TrackerStep(
               [inflight EXCEPT
                   !.sweep[c] = [IdleSweep EXCEPT
                                    !.pc = IF items = <<>> THEN "done" ELSE "call",
                                    !.code = IF gate = "run" THEN "200" ELSE gate,
                                    !.start = tracker,
                                    !.items = items,
                                    !.k = 1],
                   !.mixed = @ \/ TrackInFlight],
               tracker)

\* The loop moves to its next item, or the sweep answers.
NextItem(rec) ==
    [rec EXCEPT !.k = @ + 1,
                !.pc = IF rec.k + 1 > Len(rec.items) THEN "done" ELSE "call"]

\* The delete call of items[k] comes back.
SweepCall(c, response) ==
    /\ inflight.sweep[c].pc = "call"
    /\ LET rec == [inflight.sweep[c] EXCEPT !.answers = Append(@, response)]
       IN  TrackerStep(
               [inflight EXCEPT
                   !.sweep[c] = IF DeleteSucceeded(response)
                                THEN [rec EXCEPT !.pc = "read"]
                                ELSE NextItem(rec)],
               tracker)

\* removeTracked...: getDemoTracker and filter.
SweepRemoveRead(c) ==
    /\ inflight.sweep[c].pc = "read"
    /\ LET item == inflight.sweep[c].items[inflight.sweep[c].k]
           doc == IF item[1] = "incidents"
                  THEN removeTrackedIncident(tracker, item[2])
                  ELSE removeTrackedTemplate(tracker, item[2])
       IN  TrackerStep([inflight EXCEPT !.sweep[c].pc = "write", !.sweep[c].doc = doc],
                       tracker)

\* removeTracked...: saveDemoTracker.
SweepRemoveWrite(c) ==
    /\ inflight.sweep[c].pc = "write"
    /\ TrackerStep([inflight EXCEPT !.sweep[c] = NextItem(@)], inflight.sweep[c].doc)

InitTracker ==
    /\ file = EmptyTestData
    /\ apiConfigured = TRUE
    /\ lastOp = NoRequest
    /\ tracker = EmptyTracker
    /\ demoMode \in BOOLEAN
    /\ cronSecret = FALSE
    /\ lastSweep = NoSweep
    /\ inflight = NoCalls
    /\ rateLimitStore = NoEntries
    /\ now = 0
    /\ lastCheck = NoCheck

\* The sweep s2 is the one that starts second.
NextTracker ==
    \/ \E c \in TrackCalls : TrackRead(c)
    \/ \E c \in TrackCalls : TrackWrite(c)
    \/ \E headerMatches \in BOOLEAN : SweepStart("s1", headerMatches)
    \/ \E headerMatches \in BOOLEAN :
           inflight.sweep["s1"].pc # "idle" /\ SweepStart("s2", headerMatches)
    \/ \E c \in SweepCalls, response \in OverlapResponses : SweepCall(c, response)
    \/ \E c \in SweepCalls : SweepRemoveRead(c)
    \/ \E c \in SweepCalls : SweepRemoveWrite(c)

SpecTracker == InitTracker /\ [][NextTracker]_vars

----------------------------------------------------------------------------
(* SpecReplace: one incident at a time, created with or without component *)
(* snapshots and then updated in replace mode with payloads that carry a   *)
(* status, a body, components in each of their forms, or several of these. *)

ReplaceCreateBodies ==
    {[NoBody EXCEPT !.status = "investigating", !.body = "b1", !.components = c] :
        c \in {NoComponents,
               MapOf(<<Claim("c1", "major_outage")>>),
               ArrayOf(<<Snap("c2", "Web", "partial_outage")>>)}}

ReplaceComponents ==
    {NoComponents, MapOf(<<>>), ArrayOf(<<>>),
     MapOf(<<Claim("c1", "partial_outage")>>),
     MapOf(<<Claim("c3", "major_outage")>>),
     ArrayOf(<<Snap("c2", "Web", "major_outage"), Snap("c1", "API", "operational")>>)}

WipeGuardBodies ==
    {[NoBody EXCEPT !.status = s, !.body = b, !.components = c] :
        s \in {Absent, "identified"}, b \in {Absent, "b2"}, c \in ReplaceComponents}

NextReplace ==
    \/ \E fetched \in Fetches : Get("components", Absent, FALSE, fetched)
    \/ \E body \in ReplaceCreateBodies : file.incidents = <<>> /\ PostIncidents(body)
    \/ \E id \in StoredIds("incidents"), body \in WipeGuardBodies :
           Patch("incidents", id, body)
    \/ \E id \in StoredIds("incidents") : Delete("incidents", id)

SpecReplace == Init /\ [][NextReplace]_vars

----------------------------------------------------------------------------
(* SpecResolve: incidents that claim components are created, the claims    *)
(* are projected by list(components), and the incidents are resolved in    *)
(* replace mode and in add-update mode.                                    *)

ResolveCreateBodies ==
    {[NoBody EXCEPT !.status = "investigating", !.body = "b1", !.components = c] :
        c \in {MapOf(<<Claim("c1", "major_outage")>>),
               MapOf(<<Claim("c1", "partial_outage"), Claim("c2", "major_outage")>>)}}

ResolveBodies ==
    {[NoBody EXCEPT !.status = "resolved"],
     [NoBody EXCEPT !.status = "identified"],
     [NoBody EXCEPT !.status = "resolved",
                    !.components = MapOf(<<Claim("c1", "operational")>>)],
     [NoBody EXCEPT !.status = "resolved", !.incident_update = Update("resolved", "u1")]}

NextResolve ==
    \/ \E fetched \in Fetches : Get("components", Absent, FALSE, fetched)
    \/ \E body \in ResolveCreateBodies : PostIncidents(body)
    \/ \E id \in StoredIds("incidents"), body \in ResolveBodies :
           Patch("incidents", id, body)
    \/ \E id \in StoredIds("incidents") : Delete("incidents", id)

SpecResolve == Init /\ [][NextResolve]_vars

----------------------------------------------------------------------------
(* SpecDirect: component statuses are written directly, by                 *)
(* update(components) with {componentId, status}, next to incidents that   *)
(* claim components and are closed; no incident is deleted.                *)

DirectBodies ==
    {[NoBody EXCEPT !.componentId = c, !.status = s] :
        c \in {"c1", "c2"},
        s \in {"operational", "under_maintenance", "major_outage"}}

DirectCreateBodies ==
    {[NoBody EXCEPT !.status = "investigating", !.body = "b1",
                    !.components = MapOf(<<Claim(c, "partial_outage")>>)] :
        c \in {"c1", "c2"}}

NextDirect ==
    \/ \E fetched \in Fetches : Get("components", Absent, FALSE, fetched)
    \/ \E body \in DirectBodies : Patch("components", Absent, body)
    \/ \E body \in DirectCreateBodies : PostIncidents(body)
    \/ \E id \in StoredIds("incidents") :
           Patch("incidents", id, [NoBody EXCEPT !.status = "resolved"])

SpecDirect == Init /\ [][NextDirect]_vars

----------------------------------------------------------------------------
(* SpecConflict: incidents that claim different statuses for the same      *)
(* component are created one after the other, closed and reopened.         *)

ConflictCreateBodies ==
    {[NoBody EXCEPT !.status = "investigating", !.body = "b1",
                    !.components = MapOf(<<Claim("c1", s)>>)] :
        s \in {"degraded_performance", "partial_outage", "major_outage"}}

ConflictBodies == {[NoBody EXCEPT !.status = s] : s \in {"resolved", "monitoring"}}

NextConflict ==
    \/ \E fetched \in Fetches : Get("components", Absent, FALSE, fetched)
    \/ \E body \in ConflictCreateBodies : PostIncidents(body)
    \/ \E id \in StoredIds("incidents"), body \in ConflictBodies :
           Patch("incidents", id, body)
    \/ \E id \in StoredIds("incidents") : Delete("incidents", id)

SpecConflict == Init /\ [][NextConflict]_vars

----------------------------------------------------------------------------
(* SpecTemplates: templates are created, updated and deleted; a payload    *)
(* may carry an id field of its own.                                       *)

\* An id a caller puts into a payload.
OwnId == "own"

TemplateBodies ==
    {[NoBody EXCEPT !.id = i, !.name = n, !.body = "b1"] :
        i \in {Absent, OwnId}, n \in {"n1", "n2"}}

TemplateUpdateBodies ==
    {[NoBody EXCEPT !.name = "n3"], [NoBody EXCEPT !.body = "b2"],
     [NoBody EXCEPT !.id = OwnId, !.name = "n3"]}

NextTemplates ==
    \/ \E body \in TemplateBodies : PostTemplates(body)
    \/ \E id \in StoredIds("templates") \cup {UnknownId}, body \in TemplateUpdateBodies :
           Patch("templates", id, body)
    \/ \E id \in StoredIds("templates") \cup {UnknownId, OwnId} :
           Delete("templates", id)
    \/ Get("templates", Absent, FALSE, NoFetch)

SpecTemplates == Init /\ [][NextTemplates]_vars

----------------------------------------------------------------------------
(* SpecTransitions: one incident at a time, created in any status with a   *)
(* claim on a component and moved in replace mode to any status.           *)

TransitionCreateBodies ==
    {[NoBody EXCEPT !.status = s, !.body = "b1",
                    !.components = MapOf(<<Claim("c1", "major_outage")>>)] :
        s \in IncidentStatus}

TransitionBodies == {[NoBody EXCEPT !.status = s] : s \in IncidentStatus}

NextTransitions ==
    \/ \E fetched \in Fetches : Get("components", Absent, FALSE, fetched)
    \/ \E body \in TransitionCreateBodies :
           file.incidents = <<>> /\ PostIncidents(body)
    \/ \E id \in StoredIds("incidents"), body \in TransitionBodies :
           Patch("incidents", id, body)
    \/ \E id \in StoredIds("incidents") : Delete("incidents", id)

SpecTransitions == Init /\ [][NextTransitions]_vars

----------------------------------------------------------------------------
(* SpecShapes: SpecReplace with add-update payloads that carry components  *)
(* as well, so that every mode of update(incidents) meets every shape of   *)
(* the components payload.                                                 *)

ShapeUpdateBodies ==
    {[NoBody EXCEPT !.incident_update = Update("identified", "u1"), !.components = c] :
        c \in {NoComponents, MapOf(<<>>),
               MapOf(<<Claim("c1", "major_outage")>>),
               ArrayOf(<<Snap("c2", "Web", "major_outage")>>)}}

NextShapes ==
    \/ NextReplace
    \/ \E id \in StoredIds("incidents"), body \in ShapeUpdateBodies :
           Patch("incidents", id, body)

SpecShapes == Init /\ [][NextShapes]_vars

----------------------------------------------------------------------------
(* SpecOverlap: two mutating requests to the test-mode route that overlap. *)
(* A request reads the document (await getTestData), changes its copy and  *)
(* saves the copy (await saveTestData).  The payloads carry no components  *)
(* map, so that each request reads the document once.                      *)

\* The handler of a request in flight, run on the document the request read.
HandlerOf(rec, testData) ==
    IF rec.method = "POST" THEN PostIncident(testData, testData, rec.body)
    ELSE IF rec.method = "PATCH"
         THEN PatchHandler(testData, testData, rec.resource, rec.id, rec.body)
         ELSE DeleteHandler(testData, rec.resource, rec.id)

\* A save that keeps the incidents another request stored meanwhile.
Saved_Merged(current, answer) ==
    LET doc == FileAfter(current, answer.writes)
        kept == {doc.incidents[k].id : k \in DOMAIN doc.incidents}
        IsNew(incident) == incident.id \notin kept
    IN  [doc EXCEPT !.incidents = @ \o SelectSeq(current.incidents, IsNew)]

\* saveTestData: the file is replaced by the document the handler saves.
Saved(current, answer) == FileAfter(current, answer.writes)

OverlapStep(calls, doc) ==
    /\ inflight' = calls
    /\ file' = doc
    /\ UNCHANGED <<apiConfigured, lastOp, tracker, demoMode, cronSecret, lastSweep,
                 rateLimitStore, now, lastCheck>>

\* POST, PATCH, DELETE: up to the end of await getTestData().
StoreRead(c, method, resource, id, body) ==
    /\ inflight.store[c].pc = "idle"
    /\ method = "POST" =>
           /\ Len(file.incidents) < MaxIncidents
           /\ HasFreshIds(UsedIds(file), 2)
    /\ OverlapStep(
           [inflight EXCEPT
               !.store[c] = [IdleStore EXCEPT !.pc = "read", !.method = method,
                                              !.resource = resource, !.id = id,
                                              !.body = body, !.testData = file]],
           file)

\* POST, PATCH, DELETE: from there to the response.
StoreWrite(c) ==
    /\ inflight.store[c].pc = "read"
    /\ LET rec == inflight.store[c]
           answer == HandlerOf(rec, rec.testData)
           others == StoreCalls \ {c}
       IN  OverlapStep(
               [inflight EXCEPT
                   !.store[c] =
                       [rec EXCEPT
                           !.pc = "done",
                           !.code = answer.code,
                           !.writes = Len(answer.writes),
                           !.turn = 1 + Cardinality({o \in others :
                                                       inflight.store[o].pc = "done"}),
                           !.overlapped = \E o \in others :
                                             inflight.store[o].pc = "read"]],
               Saved(file, answer))

OverlapCreateBodies ==
    {[NoBody EXCEPT !.status = s, !.body = b] :
        s \in {"investigating", "identified"}, b \in {"b1"}}

OverlapUpdateBodies ==
    {[NoBody EXCEPT !.status = "resolved"],
     [NoBody EXCEPT !.incident_update = Update("monitoring", "u1")]}

\* Requests are served one at a time until the store holds an incident;
\* then the two requests in flight are made.
NextOverlap ==
    \/ \E body \in OverlapCreateBodies :
           file.incidents = <<>> /\ inflight = NoCalls /\ PostIncidents(body)
    \/ \E c \in StoreCalls, body \in OverlapCreateBodies :
           file.incidents # <<>> /\ StoreRead(c, "POST", "incidents", Absent, body)
    \/ \E c \in StoreCalls, body \in OverlapUpdateBodies :
           \E id \in StoredIds("incidents") :
               StoreRead(c, "PATCH", "incidents", id, body)
    \/ \E c \in StoreCalls :
           \E id \in StoredIds("incidents") \cup {UnknownId} :
               file.incidents # <<>> /\ StoreRead(c, "DELETE", "incidents", id, NoBody)
    \/ \E c \in StoreCalls : StoreWrite(c)

SpecOverlap == Init /\ [][NextOverlap]_vars

----------------------------------------------------------------------------
(* What the claims speak of, stated on a document without the handlers'    *)
(* operators.                                                              *)

Closed(inc) == inc.status \in {"resolved", "postmortem"}

\* The status an incident claims for a component: that of its last snapshot of
\* the component with a status other than operational; Absent when it has none.
ClaimOf(inc, cid) ==
    LET hits == {j \in DOMAIN inc.components :
                    /\ inc.components[j].id = cid
                    /\ inc.components[j].status # "operational"}
    IN  IF hits = {} THEN Absent
        ELSE inc.components[CHOOSE j \in hits : \A k \in hits : k <= j].status

\* The incidents of a list, open or closed as asked, that claim the component.
Claimants(incs, cid, closed) ==
    {i \in DOMAIN incs : Closed(incs[i]) = closed /\ ClaimOf(incs[i], cid) # Absent}

\* The affected set: ids claimed by some open incident.
InAffectedSet(doc, cid) == Claimants(doc.incidents, cid, FALSE) # {}

\* The claim of the open incident that comes last in the stored order.
LastOpenClaim(doc, cid) ==
    LET open == Claimants(doc.incidents, cid, FALSE)
    IN  ClaimOf(doc.incidents[CHOOSE i \in open : \A k \in open : k <= i], cid)

\* A component as the claims want it after the projection.
Reconciled(doc, component) ==
    IF InAffectedSet(doc, component.id)
    THEN component.status = LastOpenClaim(doc, component.id)
    ELSE component.status = "operational"

\* The state right after list(components) answered.
AfterListComponents ==
    /\ IsListComponents(lastOp.method, lastOp.resource, lastOp.id, lastOp.initialize)
    /\ lastOp.code = 200

StoredComponent(cid) == file.components[FindIndex(file.components, cid)]
IsStored(cid) == FindIndex(file.components, cid) # 0

----------------------------------------------------------------------------
(* C1: reset invariant.  Right after list(components), every stored        *)
(* component whose id is not in the affected set (ids of snapshots with a   *)
(* status other than operational in incidents that are neither resolved    *)
(* nor postmortem) is operational.                                         *)
C1_ResetInvariant ==
    AfterListComponents =>
        \A i \in DOMAIN file.components :
            ~InAffectedSet(file, file.components[i].id) =>
                file.components[i].status = "operational"

\* C1 witness: list(components) reset something: it saved, no stored component
\* is in the affected set, and a closed incident still claims a stored one.
C1_Witness ==
    /\ AfterListComponents
    /\ lastOp.writes = 1
    /\ ~lastOp.again
    /\ file.components # <<>>
    /\ \A i \in DOMAIN file.components : ~InAffectedSet(file, file.components[i].id)
    /\ \E i \in DOMAIN file.components :
           Claimants(file.incidents, file.components[i].id, TRUE) # {}

(* C2: apply invariant with tie-break.  Right after list(components), every *)
(* stored component that an open incident claims with a status other than  *)
(* operational has the status of the last such snapshot in the stored      *)
(* order of the incidents (and of each incident's components).             *)
C2_ApplyInvariant ==
    AfterListComponents =>
        \A i \in DOMAIN file.components :
            InAffectedSet(file, file.components[i].id) =>
                file.components[i].status = LastOpenClaim(file, file.components[i].id)

\* C2 witness: two open incidents claim different statuses for a stored
\* component and list(components) left it with the later one's.
C2_Witness ==
    /\ AfterListComponents
    /\ Len(file.incidents) = 2
    /\ \E i \in DOMAIN file.components :
           LET cid == file.components[i].id IN
           /\ Claimants(file.incidents, cid, FALSE) = {1, 2}
           /\ ClaimOf(file.incidents[1], cid) # ClaimOf(file.incidents[2], cid)
           /\ file.components[i].status = ClaimOf(file.incidents[2], cid)

(* C3: closed-incident exclusion.  Right after list(components), a stored  *)
(* component that only resolved or postmortem incidents claim with a status *)
(* other than operational is operational, whatever their snapshots hold.   *)
C3_ClosedIncidentExclusion ==
    AfterListComponents =>
        \A i \in DOMAIN file.components :
            LET cid == file.components[i].id IN
            (/\ Claimants(file.incidents, cid, TRUE) # {}
             /\ Claimants(file.incidents, cid, FALSE) = {}) =>
                file.components[i].status = "operational"

\* C3 witness: after list(components) a resolved and a postmortem incident both
\* hold a non-operational snapshot of a stored component, which is operational.
C3_Witness ==
    /\ AfterListComponents
    /\ \E i \in DOMAIN file.components :
           LET cid == file.components[i].id
               closed == Claimants(file.incidents, cid, TRUE)
           IN  /\ \E a \in closed : file.incidents[a].status = "resolved"
               /\ \E b \in closed : file.incidents[b].status = "postmortem"
               /\ Claimants(file.incidents, cid, FALSE) = {}
               /\ file.components[i].status = "operational"

(* C4: idempotence of the projection.  On a store that holds components, a *)
(* list(components) that follows a list(components) with nothing in        *)
(* between saves nothing and returns the statuses that are stored, also    *)
(* when open incidents or snapshots disagree about a component.            *)
C4_Idempotence ==
    (AfterListComponents /\ lastOp.again /\ ~lastOp.onEmpty) =>
        /\ lastOp.writes = 0
        /\ lastOp.data = file.components

(* C5: map-form create.  When create(incidents) with components            *)
(* {c1: major_outage}, c1 stored, has returned, the new incident holds     *)
(* exactly one snapshot, c1 with major_outage, and the stored component c1 *)
(* has status major_outage.                                                *)
C5_MapFormCreate ==
    (/\ lastOp.method = "POST" /\ lastOp.resource = "incidents"
     /\ lastOp.body.components = MapOf(<<Claim("c1", "major_outage")>>)
     /\ IsStored("c1")) =>
        LET created == file.incidents[FindIndex(file.incidents, lastOp.data[1].id)]
        IN  /\ Len(created.components) = 1
            /\ created.components[1].id = "c1"
            /\ created.components[1].status = "major_outage"
            /\ StoredComponent("c1").status = "major_outage"

(* C6: create-then-resolve scenario.  create(incidents) with status        *)
(* investigating and components {c1: partial_outage} makes the stored      *)
(* component c1 partial_outage; once that incident is resolved,            *)
(* list(components) makes c1 operational again.                            *)
C6_CreateThenResolve ==
    /\ (/\ lastOp.method = "POST" /\ lastOp.resource = "incidents"
        /\ lastOp.body.status = "investigating"
        /\ lastOp.body.components = MapOf(<<Claim("c1", "partial_outage")>>)
        /\ IsStored("c1")) =>
           StoredComponent("c1").status = "partial_outage"
    /\ (/\ AfterListComponents
        /\ IsStored("c1")
        /\ Len(file.incidents) = 1
        /\ file.incidents[1].status = "resolved"
        /\ ClaimOf(file.incidents[1], "c1") = "partial_outage") =>
           StoredComponent("c1").status = "operational"

(* C8: every read of components runs the projection.  What                 *)
(* list(components), list(components, {initialize: true}) and              *)
(* get(components, id) return is reconciled against the open incidents.    *)
C8_ReadsRunProjection ==
    (lastOp.method = "GET" /\ lastOp.resource = "components" /\ lastOp.code = 200) =>
        \A k \in DOMAIN lastOp.data : Reconciled(file, lastOp.data[k])

\* What a sweep that ran left of the ids of one kind it read at its start.
SweepOutcome(kind, ids, responses, left) ==
    \A k \in DOMAIN ids :
        LET item == <<kind, ids[k]>>
            gone == /\ ~responses[k].threw
                    /\ \/ responses[k].status \in 200..299
                       \/ responses[k].status = 404
        IN  /\ item \in SeqToSet(lastSweep.calls)
            /\ gone => /\ ids[k] \notin SeqToSet(left)
                       /\ item \in SeqToSet(lastSweep.deleted)
            /\ ~gone => /\ ids[k] \in SeqToSet(left)
                        /\ item \in SeqToSet(lastSweep.errors)

SweepRan == lastSweep.op = "sweep" /\ lastSweep.code = "200"

(* C7: sweep per-item outcome.  After a sweep that ran, every incident id   *)
(* and every template id tracked at its start was called for; it is off    *)
(* the tracker if its delete call answered 2xx or 404, and is still tracked *)
(* with an error collected if the call answered anything else or threw,    *)
(* whatever the other items' calls came to.                                *)
C7_SweepPerItemOutcome ==
    SweepRan =>
        /\ SweepOutcome("incidents", lastSweep.start.incidents,
                        lastSweep.incResponses, tracker.incidents)
        /\ SweepOutcome("templates", lastSweep.start.templates,
                        lastSweep.tplResponses, tracker.templates)

\* C7 witness: a sweep whose first incident call answered 500 and whose second
\* answered 404, and whose template call threw: the first incident and the
\* template are still tracked, the second incident is not.
C7_Witness ==
    /\ SweepRan
    /\ Len(lastSweep.start.incidents) = 2
    /\ Len(lastSweep.start.templates) = 1
    /\ lastSweep.incResponses = <<Responded(500), Responded(404)>>
    /\ lastSweep.tplResponses = <<Threw>>
    /\ tracker.incidents = <<lastSweep.start.incidents[1]>>
    /\ tracker.templates = lastSweep.start.templates

\* The step served an add-update: a PATCH of a stored incident whose payload
\* carries incident_update.
AddUpdateServed ==
    /\ lastOp'.method = "PATCH"
    /\ lastOp'.resource = "incidents"
    /\ lastOp'.body.incident_update.present
    /\ lastOp'.code = 200

(* C9: add-update promotes status.  An update(incidents, id, body) whose    *)
(* body carries incident_update appends exactly one entry at the end of    *)
(* incident_updates; the entry's status and body are the given ones, or the *)
(* incident's current ones when not given; afterwards the incident's       *)
(* top-level status is the appended entry's status.                        *)
C9_AddUpdatePromotesStatus ==
    [][AddUpdateServed =>
          LET index == FindIndex(file.incidents, lastOp'.id)
              old == file.incidents[index]
              new == file'.incidents[index]
              given == lastOp'.body.incident_update
              appended == new.incident_updates[Len(new.incident_updates)]
          IN  /\ Len(new.incident_updates) = Len(old.incident_updates) + 1
              /\ \A k \in DOMAIN old.incident_updates :
                     new.incident_updates[k] = old.incident_updates[k]
              /\ appended.status =
                     (IF given.status = Absent THEN old.status ELSE given.status)
              /\ appended.body =
                     (IF given.body = Absent THEN old.body ELSE given.body)
              /\ new.status = appended.status]_vars

(* C10: the update history is append-only.  In every step that keeps an     *)
(* incident, each entry of its incident_updates stays at its place with its *)
(* id (which stands for created_at) and its status.                        *)
C10_HistoryAppendOnly ==
    [][\A i \in DOMAIN file.incidents : \A j \in DOMAIN file'.incidents :
          file.incidents[i].id = file'.incidents[j].id =>
              LET old == file.incidents[i].incident_updates
                  new == file'.incidents[j].incident_updates
              IN  /\ Len(new) >= Len(old)
                  /\ \A k \in DOMAIN old :
                         /\ new[k].id = old[k].id
                         /\ new[k].status = old[k].status]_vars

\* The ids of a list of snapshots.
SnapshotIds(snapshots) == {snapshots[k].id : k \in DOMAIN snapshots}

(* C11: components and component_ids agree.  In every reachable store       *)
(* document, every stored incident's components snapshots carry the same   *)
(* set of ids as its component_ids.                                        *)
C11_ComponentIdsConsistent ==
    \A i \in DOMAIN file.incidents :
        SnapshotIds(file.incidents[i].components)
            = SeqToSet(file.incidents[i].component_ids)

\* The step served get, update or delete for an id that no stored item of the
\* resource has (for a component update, the id is the payload's componentId).
UnknownIdServed ==
    LET named == IF lastOp'.method = "PATCH" /\ Truthy(lastOp'.body.componentId)
                 THEN lastOp'.body.componentId ELSE lastOp'.id
        stored == {ItemsOf(file, lastOp'.resource)[i].id :
                      i \in DOMAIN ItemsOf(file, lastOp'.resource)}
    IN  /\ lastOp'.method \in {"GET", "PATCH", "DELETE"}
        /\ ~lastOp'.initialize
        /\ Truthy(named)
        /\ named \notin stored

AfterTrack == lastSweep.op = "track"
TrackedKind == lastSweep.calls[1][1]
TrackedId == lastSweep.calls[1][2]

\* How often an id occurs in a list of ids.
Occurrences(ids, id) == Cardinality({k \in DOMAIN ids : ids[k] = id})

(* C13: tracker gating.  With the demo flag off a track call leaves the     *)
(* tracker document as it was and saves nothing; with the flag on the id is *)
(* in the tracker once after the call, the rest of the document is as it   *)
(* was, and tracking an id already present changes and saves nothing.      *)
C13_TrackerGating ==
    AfterTrack =>
        LET before == lastSweep.start
            present == TrackedId \in SeqToSet(before[TrackedKind])
        IN  /\ ~demoMode => tracker = before /\ lastSweep.writes = 0
            /\ (demoMode /\ present) => tracker = before /\ lastSweep.writes = 0
            /\ (demoMode /\ ~present) =>
                   /\ tracker = [before EXCEPT ![TrackedKind] = Append(@, TrackedId)]
                   /\ Occurrences(tracker[TrackedKind], TrackedId) = 1

\* C13 witness: with the flag on, a track call for an incident id that was
\* already tracked, next to a tracked template, left the document as it was.
C13_Witness ==
    /\ AfterTrack
    /\ demoMode
    /\ TrackedKind = "incidents"
    /\ lastSweep.start.incidents = <<TrackedId>>
    /\ lastSweep.start.templates # <<>>
    /\ tracker = lastSweep.start

(* C14: the sweep never deletes components.  A sweep issues no live delete *)
(* call for a component id and leaves the tracker's components list as it  *)
(* found it.                                                               *)
C14_SweepKeepsComponents ==
    lastSweep.op = "sweep" =>
        /\ \A k \in DOMAIN lastSweep.calls : lastSweep.calls[k][1] # "components"
        /\ tracker.components = lastSweep.start.components

\* C14 witness: a sweep that deleted an incident and a template while a
\* component was tracked, and the component is still tracked.
C14_Witness ==
    /\ SweepRan
    /\ lastSweep.start.components # <<>>
    /\ \E k \in DOMAIN lastSweep.deleted : lastSweep.deleted[k][1] = "incidents"
    /\ \E k \in DOMAIN lastSweep.deleted : lastSweep.deleted[k][1] = "templates"
    /\ tracker.components = lastSweep.start.components

\* The step served list(components, {initialize: true}) on a store that held
\* components.
SeedRequestedOnFilledStore ==
    /\ lastOp'.method = "GET"
    /\ lastOp'.resource = "components"
    /\ lastOp'.id = Absent
    /\ lastOp'.initialize
    /\ file.components # <<>>

(* C15: seeding is idempotent.  list(components, {initialize: true}) on a   *)
(* store that already holds components leaves the stored components and    *)
(* their statuses as they were.                                            *)
C15_SeedingIdempotent ==
    [][SeedRequestedOnFilledStore => file'.components = file.components]_vars

\* The delete call some sweep made for the item came back with success or 404.
DeleteReturned(kind, id) ==
    \E s \in SweepCalls :
        \E k \in DOMAIN inflight.sweep[s].answers :
            /\ inflight.sweep[s].items[k] = <<kind, id>>
            /\ DeleteSucceeded(inflight.sweep[s].answers[k])

\* The track call has returned, with the demo flag on.
Recorded(c) == inflight.track[c].pc = "done" /\ demoMode

\* C16: an id recorded by a track call while the demo flag is on stays in the
\* tracker until a sweep's delete call for it has come back with success or
\* 404, also when track calls and the sweep's removals interleave at their
\* read-file and write-file steps.
C16_TrackedUntilDeleted ==
    \A c \in TrackCalls :
        (Recorded(c) /\ ~DeleteReturned(inflight.track[c].kind, inflight.track[c].id))
            => inflight.track[c].id \in SeqToSet(tracker[inflight.track[c].kind])

\* The answers a sweep got, for its tracked incidents and for its templates.
IncidentAnswers(rec) == SubSeq(rec.answers, 1, Len(rec.start.incidents))

TemplateAnswers(rec) ==
    SubSeq(rec.answers, Len(rec.start.incidents) + 1, Len(rec.answers))

\* The answer the sweep got to the delete call of an item.
AnswerTo(rec, item) ==
    rec.answers[CHOOSE k \in DOMAIN rec.items : rec.items[k] = item]

\* Both sweeps ran to their end past the gate, and every track call had
\* returned before the first of them started.
TwoSweepsAlone ==
    /\ \A s \in SweepCalls : inflight.sweep[s].pc = "done" /\ inflight.sweep[s].code = "200"
    /\ ~inflight.mixed

\* The tracker after the first sweep run alone from where it started.
AfterFirstAlone ==
    LET first == inflight.sweep["s1"]
    IN  SweepHandler(first.start, demoMode, cronSecret, TRUE, apiConfigured,
                     IncidentAnswers(first), TemplateAnswers(first)).doc

\* The tracker after the second sweep run alone after the first one, each
\* delete call answered as it was in the overlapping run.
AfterBothInTurn ==
    LET second == inflight.sweep["s2"]
        left == AfterFirstAlone
    IN  SweepHandler(left, demoMode, cronSecret, TRUE, apiConfigured,
                     [k \in DOMAIN left.incidents |->
                         AnswerTo(second, <<"incidents", left.incidents[k]>>)],
                     [k \in DOMAIN left.templates |->
                         AnswerTo(second, <<"templates", left.templates[k]>>)]).doc

\* The second sweep was asked about every item the first one alone leaves.
SameCalls ==
    \A item \in SeqToSet(SweepItems(AfterFirstAlone)) :
        item \in SeqToSet(inflight.sweep["s2"].items)

\* C17: with no track call, the tracker after two overlapping sweeps is the
\* tracker after the same two sweeps run one after the other with the same
\* answers to their delete calls.
C17_SweepReentrant ==
    (TwoSweepsAlone /\ SameCalls) => tracker = AfterBothInTurn

\* The request that saved first, and the one that saved after it.
EarlierWriter == CHOOSE c \in StoreCalls : inflight.store[c].turn = 1

LaterWriter == CHOOSE c \in StoreCalls : inflight.store[c].turn = 2

\* The document a request alone leaves, from the document it read.
AloneFrom(c) ==
    Saved(inflight.store[c].testData,
          HandlerOf(inflight.store[c], inflight.store[c].testData))

\* Both requests read the document before either saved, and both saved.
BothReadBeforeEitherWrote ==
    /\ \A c \in StoreCalls : inflight.store[c].pc = "done" /\ inflight.store[c].writes > 0
    /\ inflight.store[EarlierWriter].overlapped

\* C18: when two mutating requests both read the document before either
\* saves, the document after both saves is the one the later writer alone
\* makes of the document it read, the earlier writer's change is not in it,
\* and each request is answered as it is when served alone.
C18_LaterWriterWins ==
    BothReadBeforeEitherWrote =>
        /\ file = AloneFrom(LaterWriter)
        /\ AloneFrom(EarlierWriter) # AloneFrom(LaterWriter) => file # AloneFrom(EarlierWriter)
        /\ \A c \in StoreCalls :
               inflight.store[c].code =
                   HandlerOf(inflight.store[c], inflight.store[EarlierWriter].testData).code

\* Two overlapping requests saved different changes, and the earlier one's
\* is lost.
C18_Witness ==
    /\ BothReadBeforeEitherWrote
    /\ inflight.store[EarlierWriter].method = "POST"
    /\ inflight.store[LaterWriter].method = "PATCH"
    /\ Len(AloneFrom(EarlierWriter).incidents) = 2
    /\ Len(file.incidents) = 1

\* The step served create(incidents), update(incidents) or list(components).
CreateUpdateOrListServed ==
    \/ lastOp'.method \in {"POST", "PATCH"} /\ lastOp'.resource = "incidents"
    \/ IsListComponents(lastOp'.method, lastOp'.resource, lastOp'.id, lastOp'.initialize)

\* C19: on a store that holds components, create(incidents), update(incidents)
\* and list(components) leave the set of stored component ids as it was: a
\* component id that an incident references and the store does not hold is
\* skipped, and its stub lives in the incident's snapshots only.
C19_NoSyntheticComponent ==
    [][(CreateUpdateOrListServed /\ file.components # <<>>)
          => SnapshotIds(file'.components) = SnapshotIds(file.components)]_vars

\* list(components) was served on a store that holds components while an open
\* incident carries the stub of a component the store does not hold.
C19_Witness ==
    /\ AfterListComponents
    /\ file.components # <<>>
    /\ ~IsStored("c3")
    /\ \E i \in DOMAIN file.incidents :
           /\ IsOpen(file.incidents[i])
           /\ \E k \in DOMAIN file.incidents[i].components :
                  file.incidents[i].components[k]
                      = [id |-> "c3", name |-> "Component c3", status |-> "major_outage"]

\* The step served update(incidents, id, body) without incident_update for a
\* stored incident.
ReplaceServed ==
    /\ lastOp'.method = "PATCH"
    /\ lastOp'.resource = "incidents"
    /\ ~lastOp'.body.incident_update.present
    /\ FindIndex(file.incidents, lastOp'.id) # 0

\* The payload's components as an array: a map against the stored
\* components, an array as it is, nothing when the payload has none.
NormalizedPayload(components, payload) ==
    IF payload.form = "map" THEN NormalizeMap(components, payload.entries)
    ELSE IF payload.form = "array" THEN payload.entries
    ELSE <<>>

\* C20: update(incidents, id, body) without incident_update replaces the
\* incident's components array by the normalized payload only when that is
\* non-empty; with body.components absent, an empty map or an empty array the
\* array stays as it was.  The other provided fields are merged into the
\* incident and the fields not provided stay.
C20_WipeGuard ==
    [][ReplaceServed =>
          LET index == FindIndex(file.incidents, lastOp'.id)
              before == file.incidents[index]
              after == file'.incidents[index]
              body == lastOp'.body
              normalized == NormalizedPayload(file.components, body.components)
          IN  /\ lastOp'.code = 200
              /\ after.components =
                     IF normalized # <<>> THEN normalized ELSE before.components
              /\ after.status = IF body.status # Absent THEN body.status ELSE before.status
              /\ after.body = IF body.body # Absent THEN body.body ELSE before.body
              /\ after.id = before.id
              /\ after.incident_updates = before.incident_updates
              /\ after.component_ids = before.component_ids]_vars

\* A replace with a status and an empty components map was served for an
\* incident that carries snapshots: the status is merged, the snapshots stay.
C20_Witness ==
    /\ lastOp.method = "PATCH"
    /\ lastOp.resource = "incidents"
    /\ lastOp.code = 200
    /\ lastOp.body.status = "identified"
    /\ lastOp.body.components = MapOf(<<>>)
    /\ \E i \in DOMAIN file.incidents :
           /\ file.incidents[i].id = lastOp.id
           /\ file.incidents[i].status = "identified"
           /\ file.incidents[i].components # <<>>

\* The step served an update(incidents, id, body) that leaves the stored
\* incident resolved.
ResolveServed ==
    /\ lastOp'.method = "PATCH"
    /\ lastOp'.resource = "incidents"
    /\ lastOp'.code = 200
    /\ \E i \in DOMAIN file'.incidents :
           file'.incidents[i].id = lastOp'.id /\ file'.incidents[i].status = "resolved"

\* The step served a request other than a read of the components.
NoComponentsReadServed == ~(lastOp'.method = "GET" /\ lastOp'.resource = "components")

ProjectionServed ==
    /\ IsListComponents(lastOp'.method, lastOp'.resource, lastOp'.id, lastOp'.initialize)
    /\ file.components # <<>>

\* C22: the projection run by list(components) on a store that holds
\* components changes nothing but the status of stored components: the
\* sequence of component ids, each component's name, the incident list and
\* the template list are after it what they were before it.
C22_ProjectionFrame ==
    [][ProjectionServed =>
          /\ Len(file'.components) = Len(file.components)
          /\ \A k \in DOMAIN file.components :
                 /\ file'.components[k].id = file.components[k].id
                 /\ file'.components[k].name = file.components[k].name
                 /\ DOMAIN file'.components[k] = DOMAIN file.components[k]
          /\ file'.incidents = file.incidents
          /\ file'.templates = file.templates]_vars

\* list(components) was served on a store that held components and incidents,
\* and the projection saved: it set a component back and applied a claim.
C22_Witness ==
    /\ AfterListComponents
    /\ ~lastOp.onEmpty
    /\ lastOp.writes > 0
    /\ file.incidents # <<>>
    /\ \E k \in DOMAIN file.components : file.components[k].status = "operational"
    /\ \E k \in DOMAIN file.components : file.components[k].status # "operational"

\* A snapshot is a component record {id, name, status}; an entry of the map
\* form is a pair {id, status}, which carries no name.
IsSnapshot(entry) == entry.name # Absent /\ entry.id # Absent /\ entry.status # Absent

\* C23: in every reachable store document every stored incident's components
\* are an array of snapshots, never the entries of a map, whatever shape the
\* components payload of create(incidents) and of update(incidents) had.
C23_ArrayFormAtRest ==
    \A i \in DOMAIN file.incidents :
        \A k \in DOMAIN file.incidents[i].components :
            IsSnapshot(file.incidents[i].components[k])

\* An update whose payload carried a non-empty components map was served,
\* and the incident holds the snapshot made of the map's entry.
C23_Witness ==
    /\ lastOp.method = "PATCH"
    /\ lastOp.resource = "incidents"
    /\ lastOp.code = 200
    /\ ~lastOp.body.incident_update.present
    /\ lastOp.body.components = MapOf(<<Claim("c1", "partial_outage")>>)
    /\ \E i \in DOMAIN file.incidents :
           /\ file.incidents[i].id = lastOp.id
           /\ file.incidents[i].components = <<Snap("c1", "API", "partial_outage")>>

\* The step served a replace-mode update(incidents, id, {status: s2}) for a
\* stored incident.
TransitionServed ==
    /\ lastOp'.method = "PATCH"
    /\ lastOp'.resource = "incidents"
    /\ ~lastOp'.body.incident_update.present
    /\ lastOp'.body.status # Absent
    /\ FindIndex(file.incidents, lastOp'.id) # 0

\* C24: a replace-mode update with {status: s2} succeeds and stores s2
\* whatever the current status s1 is, also from a closed status back to an
\* open one; the incident then counts by its stored status, so the next
\* list(components) applies the claims of an incident that was reopened.
C24_NoTransitionOrdering ==
    [][/\ TransitionServed =>
              /\ lastOp'.code = 200
              /\ file'.incidents[FindIndex(file.incidents, lastOp'.id)].status
                     = lastOp'.body.status
       /\ ProjectionServed =>
              \A k \in DOMAIN file'.components :
                  Reconciled(file, file'.components[k])]_vars

\* An incident created closed is open now, and list(components) has stored
\* the status it claims.
C24_Witness ==
    /\ AfterListComponents
    /\ \E i \in DOMAIN file.incidents :
           /\ file.incidents[i].incident_updates[1].status \in {"resolved", "postmortem"}
           /\ IsOpen(file.incidents[i])
           /\ ClaimOf(file.incidents[i], "c1") = "major_outage"
    /\ IsStored("c1")
    /\ StoredComponent("c1").status = "major_outage"

\* The ids of the stored templates of a document.
TemplateIds(doc) == {doc.templates[k].id : k \in DOMAIN doc.templates}

\* C25: create(templates, body) stores a template whose id the store
\* generated, also when the body carries an id of its own; the stored
\* templates have pairwise distinct ids after every create, update and
\* delete; delete(templates, id) answers not found exactly when no stored
\* template has the id.
C25_TemplateIdsFresh ==
    [][/\ (lastOp'.method = "POST" /\ lastOp'.resource = "templates") =>
              /\ Len(file'.templates) = Len(file.templates) + 1
              /\ file'.templates[Len(file'.templates)].id \notin UsedIds(file)
              /\ file'.templates[Len(file'.templates)].id # lastOp'.body.id
       /\ lastOp'.resource = "templates" =>
              Cardinality(TemplateIds(file')) = Len(file'.templates)
       /\ (lastOp'.method = "DELETE" /\ lastOp'.resource = "templates") =>
              (lastOp'.code = 404 <=> lastOp'.id \notin TemplateIds(file))]_vars

\* The open incident that was created first among those that claim the
\* component: create puts an incident in front, so it is the one that
\* comes last in the list.
EarliestOpenClaimant(incs, cid) ==
    LET open == Claimants(incs, cid, FALSE)
    IN  CHOOSE i \in open : \A k \in open : k <= i

\* C26: create(incidents) puts the new incident in front of the stored
\* incidents, the other requests leave the stored incidents in their order,
\* and list(components) leaves a stored component that several open
\* incidents claim with the status claimed by the earliest-created of them.
C26_OldestOpenIncidentWins ==
    [][/\ (lastOp'.method = "POST" /\ lastOp'.resource = "incidents") =>
              /\ file'.incidents # <<>>
              /\ Tail(file'.incidents) = file.incidents
              /\ Head(file'.incidents) = lastOp'.data[1]
       /\ lastOp'.method = "PATCH" =>
              [k \in DOMAIN file'.incidents |-> file'.incidents[k].id]
                  = [k \in DOMAIN file.incidents |-> file.incidents[k].id]
       /\ lastOp'.method = "DELETE" =>
              file'.incidents = FilterOutId(file.incidents, lastOp'.id)
       /\ ProjectionServed =>
              \A k \in DOMAIN file'.components :
                  LET cid == file'.components[k].id IN
                  Claimants(file.incidents, cid, FALSE) # {} =>
                      file'.components[k].status =
                          ClaimOf(file.incidents[EarliestOpenClaimant(file.incidents, cid)],
                                  cid)]_vars

\* Two open incidents claim c1, the later-created major_outage and the
\* earlier-created partial_outage, and list(components) stored the latter.
C26_Witness ==
    /\ AfterListComponents
    /\ Len(file.incidents) = 2
    /\ IsOpen(file.incidents[1]) /\ IsOpen(file.incidents[2])
    /\ ClaimOf(file.incidents[1], "c1") = "major_outage"
    /\ ClaimOf(file.incidents[2], "c1") = "partial_outage"
    /\ IsStored("c1")
    /\ StoredComponent("c1").status = "partial_outage"

\* The request before was an update(components) that stored a status other
\* than operational for a component no open incident claims, and the step
\* serves list(components).
ListAfterDirectWrite ==
    /\ lastOp.method = "PATCH"
    /\ lastOp.resource = "components"
    /\ lastOp.code = 200
    /\ lastOp.body.status # "operational"
    /\ ~InAffectedSet(file, lastOp.body.componentId)
    /\ IsListComponents(lastOp'.method, lastOp'.resource, lastOp'.id, lastOp'.initialize)

\* C27: after update(components) with {componentId, status} has stored a
\* status other than operational for a component that no open incident
\* claims, the next list(components) returns and stores the component as
\* operational.
C27_DirectWriteDoesNotSurvive ==
    [][ListAfterDirectWrite =>
          LET k == FindIndex(file.components, lastOp.body.componentId)
          IN  /\ file.components[k].status = lastOp.body.status
              /\ lastOp'.code = 200
              /\ lastOp'.data[k].id = lastOp.body.componentId
              /\ lastOp'.data[k].status = "operational"
              /\ file'.components[k].id = lastOp.body.componentId
              /\ file'.components[k].status = "operational"]_vars

\* list(components) saved on a store that held components and never held an
\* incident: it set back a status that was written directly.
C27_Witness ==
    /\ AfterListComponents
    /\ ~lastOp.onEmpty
    /\ lastOp.writes = 1
    /\ file.incidents = <<>>
    /\ \A k \in DOMAIN file.components :
           file.components[k].status = "operational" /\ lastOp.data[k] = file.components[k]

\* C28: when nothing is tracked any more, sweeps run one after the other and
\* the delete call of every tracked incident and template comes back with
\* success or 404 in the end, the tracker's incidents and templates become
\* empty and stay empty under further sweeps.
C28_SweepConverges == <>[](tracker.incidents = <<>> /\ tracker.templates = <<>>)

\* A sweep ran on tracked incidents and templates and left none of them.
C28_Witness ==
    /\ lastSweep.op = "sweep"
    /\ lastSweep.start.incidents # <<>>
    /\ lastSweep.start.templates # <<>>
    /\ tracker.incidents = <<>>
    /\ tracker.templates = <<>>

\* The step called checkRateLimit.
CheckServed == lastCheck'.op = "check"

\* C29: for each client, checkRateLimit allows at most 10 calls between the
\* making of the client's entry and the entry's resetAt; the entry's count
\* never exceeds 10; a denied call leaves the count as it is; the first call
\* after resetAt has passed starts a new window with count 1 and is allowed.
C29_RateLimitBound ==
    [][CheckServed =>
          LET c == lastCheck'.client
              old == rateLimitStore[c]
              new == rateLimitStore'[c]
          IN  /\ lastCheck'.granted[c] <= MAX_REQUESTS_PER_WINDOW
              /\ new.present /\ new.count <= MAX_REQUESTS_PER_WINDOW
              /\ ~lastCheck'.allowed =>
                     /\ old.present /\ new = old
                     /\ lastCheck'.code = 429
              /\ (old.present /\ old.resetAt < now) =>
                     /\ lastCheck'.allowed
                     /\ new.count = 1
                     /\ new.resetAt = now + RATE_LIMIT_WINDOW_MS
              /\ (old.present /\ old.resetAt >= now) => new.resetAt = old.resetAt]_vars

\* A client whose window was full and has passed was allowed again, in a
\* new window, while the other client's window is full.
C29_Witness ==
    /\ lastCheck.op = "check"
    /\ lastCheck.created
    /\ lastCheck.allowed
    /\ lastCheck.granted[lastCheck.client] = 1
    /\ now > RATE_LIMIT_WINDOW_MS
    /\ rateLimitStore[lastCheck.client].count = 1
    /\ \E c \in Clients \ {lastCheck.client} :
           rateLimitStore[c].count = MAX_REQUESTS_PER_WINDOW

\* The sweep request passed every gate: the demo flag is on, the live API key
\* and page id are configured and, when a cron secret is configured, the
\* authorization header is "Bearer <secret>".
GatesOpen ==
    /\ demoMode
    /\ apiConfigured
    /\ cronSecret => lastSweep.headerMatches

\* C30: a sweep request issues no live delete call and changes no tracker
\* entry unless the demo flag is on, the live API key and page id are
\* configured and, when a cron secret is configured, the authorization
\* header matches it; it answers 403 when the flag is off and 401 when the
\* secret does not match.
C30_SweepGating ==
    lastSweep.op = "sweep" =>
        /\ ~GatesOpen =>
               /\ lastSweep.calls = <<>>
               /\ lastSweep.writes = 0
               /\ tracker = lastSweep.start
               /\ lastSweep.code # "200"
        /\ ~demoMode => lastSweep.code = "403"
        /\ (demoMode /\ cronSecret /\ ~lastSweep.headerMatches) => lastSweep.code = "401"
        /\ GatesOpen => lastSweep.code = "200"

\* A sweep request whose header does not match the configured secret was
\* refused while incidents and templates were tracked.
C30_Witness ==
    /\ lastSweep.op = "sweep"
    /\ demoMode /\ cronSecret /\ apiConfigured /\ ~lastSweep.headerMatches
    /\ lastSweep.code = "401"
    /\ tracker.incidents # <<>> /\ tracker.templates # <<>>
    /\ lastSweep.calls = <<>>


============================================================================
